---------------------------- MODULE Spec2Model ----------------------------
(***************************************************************************)
(* Model of the rating engines of fide-glicko:                             *)
(*   - class Glicko   (src/unnamed/part_002, src/cpp/include/glicko.h)     *)
(*   - class Glicko2  (src/unnamed/part_003, src/unnamed/part_001)         *)
(*   - the C program  (src/unnamed/part_000)                               *)
(*                                                                         *)
(* The programs compute in C/C++ `double`.  A double is modelled as a      *)
(* decimal floating-point number with an 8-digit mantissa, value           *)
(* m * 10^e, together with the IEEE special values NaN, +Inf and -Inf,     *)
(* which the programs do produce (log(0), 1/0, 0/0).                       *)
(***************************************************************************)
EXTENDS Integers, Sequences, FiniteSets, TLC

(***************************************************************************)
(* double arithmetic                                                       *)
(***************************************************************************)
Ten4 == 100 * 100
Ten7 == Ten4 * 1000
Ten8 == Ten4 * Ten4

NaN  == [k |-> "nan", m |-> 0, e |-> 0]
PInf == [k |-> "inf", m |-> 1, e |-> 0]
NInf == [k |-> "inf", m |-> -1, e |-> 0]
Zero == [k |-> "num", m |-> 0, e |-> 0]

IAbs(n) == IF n < 0 THEN -n ELSE n
Sgn(n) == IF n < 0 THEN -1 ELSE IF n > 0 THEN 1 ELSE 0
Inf(s) == IF s < 0 THEN NInf ELSE PInf

\* the mantissa m > 0 brought into [10^7, 10^8), rounding to nearest
RECURSIVE NormAbs(_, _)
NormAbs(m, e) ==
    IF m >= Ten8 THEN NormAbs((m + 5) \div 10, e + 1)
    ELSE IF m < Ten7 THEN NormAbs(m * 10, e - 1)
    ELSE <<m, e>>

\* the double s * m * 10^e (m >= 0); overflow to Inf and underflow to 0 at
\* the limits of the double format
Mk(s, m, e) ==
    IF m = 0 THEN Zero
    ELSE LET n == NormAbs(m, e) IN
         IF n[2] > 301 \/ (n[2] = 301 /\ n[1] > 17976931) THEN Inf(s)
         ELSE IF n[2] < -331 THEN Zero
         ELSE [k |-> "num", m |-> s * n[1], e |-> n[2]]

FromInt(n) == Mk(Sgn(n), IAbs(n), 0)
\* the decimal literal n * 10^-d
Dec(n, d) == Mk(Sgn(n), IAbs(n), -d)
One == FromInt(1)
Two == FromInt(2)

FNeg(a) == [a EXCEPT !.m = -a.m]
FAbs(a) == [a EXCEPT !.m = IAbs(a.m)]
FSign(a) == IF a.m < 0 THEN -1 ELSE 1

FAdd(a, b) ==
    IF a.k = "nan" \/ b.k = "nan" THEN NaN
    ELSE IF a.k = "inf" THEN (IF b.k = "inf" /\ b.m # a.m THEN NaN ELSE a)
    ELSE IF b.k = "inf" THEN b
    ELSE IF a.m = 0 THEN b
    ELSE IF b.m = 0 THEN a
    ELSE LET hi == IF a.e >= b.e THEN a ELSE b
             lo == IF a.e >= b.e THEN b ELSE a
             d == hi.e - lo.e
         IN IF d > 9 THEN hi
            ELSE LET s == hi.m * 10
                          + Sgn(lo.m) * ((IAbs(lo.m) * 10) \div (10 ^ d))
                 IN Mk(Sgn(s), IAbs(s), hi.e - 1)

FSub(a, b) == FAdd(a, FNeg(b))

FMul(a, b) ==
    IF a.k = "nan" \/ b.k = "nan" THEN NaN
    ELSE IF a.k = "inf" \/ b.k = "inf"
         THEN (IF a.m = 0 \/ b.m = 0 THEN NaN ELSE Inf(FSign(a) * FSign(b)))
    ELSE IF a.m = 0 \/ b.m = 0 THEN Zero
    ELSE LET x == IAbs(a.m)
             y == IAbs(b.m)
             x1 == x \div Ten4
             x0 == x % Ten4
             y1 == y \div Ten4
             y0 == y % Ten4
             mid == x1 * y0 + x0 * y1 + ((x0 * y0) \div Ten4)
         IN Mk(FSign(a) * FSign(b), x1 * y1 * 10 + (mid \div 1000),
               a.e + b.e + 7)

\* n more digits of the quotient by d, from remainder r and quotient q
RECURSIVE LongDiv(_, _, _, _)
LongDiv(r, d, q, n) ==
    IF n = 0 THEN q
    ELSE LongDiv((r * 10) % d, d, q * 10 + ((r * 10) \div d), n - 1)

FDiv(a, b) ==
    IF a.k = "nan" \/ b.k = "nan" THEN NaN
    ELSE IF a.k = "inf"
         THEN (IF b.k = "inf" THEN NaN ELSE Inf(FSign(a) * FSign(b)))
    ELSE IF b.k = "inf" THEN Zero
    ELSE IF b.m = 0 THEN (IF a.m = 0 THEN NaN ELSE Inf(FSign(a)))
    ELSE IF a.m = 0 THEN Zero
    ELSE LET x == IAbs(a.m)
             y == IAbs(b.m)
         IN Mk(FSign(a) * FSign(b), LongDiv(x % y, y, x \div y, 8),
               a.e - b.e - 8)

FLt(a, b) ==
    LET d == FSub(a, b) IN d.k # "nan" /\ d.m < 0
FGt(a, b) == FLt(b, a)
FLe(a, b) ==
    a.k # "nan" /\ b.k # "nan" /\ (a = b \/ FLt(a, b))
\* std::pow(a, 2)
FPow2(a) == FMul(a, a)

\* the largest r with r * r <= n, for lo * lo <= n < hi * hi
RECURSIVE ISqrt(_, _, _)
ISqrt(n, lo, hi) ==
    IF hi - lo <= 1 THEN lo
    ELSE LET mid == (lo + hi) \div 2 IN
         IF mid * mid <= n THEN ISqrt(n, mid, hi) ELSE ISqrt(n, lo, mid)

FSqrt(a) ==
    IF a.k = "nan" THEN NaN
    ELSE IF a.m < 0 THEN NaN
    ELSE IF a.k = "inf" THEN PInf
    ELSE IF a.m = 0 THEN Zero
    ELSE LET odd == a.e % 2 = 1
             n == IF odd THEN a.m * 10 ELSE a.m
             e2 == IF odd THEN a.e - 1 ELSE a.e
             x0 == Mk(1, ISqrt(n, 0, 40000), e2 \div 2)
             x1 == FMul(FAdd(x0, FDiv(a, x0)), Dec(5, 1))
         IN FMul(FAdd(x1, FDiv(a, x1)), Dec(5, 1))

\* the integer nearest to the finite double a, |a| < 10^9
FRound(a) ==
    IF a.m = 0 THEN 0
    ELSE IF a.e >= 0 THEN a.m * (10 ^ a.e)
    ELSE IF a.e < -9 THEN 0
    ELSE FSign(a) * ((IAbs(a.m) + (10 ^ (-a.e)) \div 2) \div (10 ^ (-a.e)))

Ln10 == Dec(23025851, 7)

\* 1/n!, n = 0..14
RECURSIVE InvFactorial(_)
InvFactorial(n) == IF n = 0 THEN One ELSE FDiv(InvFactorial(n - 1), FromInt(n))
ExpCoef == [n \in 0..14 |-> InvFactorial(n)]

\* the Taylor series of exp in Horner form: acc is the value of the terms
\* from n on, divided by r^n
RECURSIVE ExpSeries(_, _, _)
ExpSeries(r, acc, n) ==
    IF acc.k = "nan" \/ n = 0 THEN acc
    ELSE ExpSeries(r, FAdd(ExpCoef[n - 1], FMul(r, acc)), n - 1)

FExp(a) ==
    IF a.k = "nan" THEN NaN
    ELSE IF a.k = "inf" THEN (IF a.m < 0 THEN Zero ELSE PInf)
    ELSE IF a.m = 0 THEN One
    ELSE IF a.e > -5 THEN (IF a.m < 0 THEN Zero ELSE PInf)
    ELSE LET kk == FRound(FDiv(a, Ln10))
             r == FSub(a, FMul(FromInt(kk), Ln10))
             y == ExpSeries(r, ExpCoef[14], 14)
         IN Mk(1, y.m, y.e + kk)

AtanhCoef == [n \in 1..35 |-> FDiv(One, FromInt(n))]

\* 1 + z2 * (1/3 + z2 * (1/5 + ...)), the series of atanh(z)/z in Horner
\* form: acc is the value of the terms after 1/n
RECURSIVE AtanhSeries(_, _, _)
AtanhSeries(z2, acc, n) ==
    IF acc.k = "nan" \/ n < 1 THEN acc
    ELSE AtanhSeries(z2, FAdd(AtanhCoef[n], FMul(z2, acc)), n - 2)

FLog(a) ==
    IF a.k = "nan" THEN NaN
    ELSE IF a.m < 0 THEN NaN
    ELSE IF a.k = "inf" THEN PInf
    ELSE IF a.m = 0 THEN NInf
    ELSE LET big == a.m > 31622776
             y == [k |-> "num", m |-> a.m, e |-> IF big THEN -8 ELSE -7]
             ee == IF big THEN a.e + 8 ELSE a.e + 7
             z == FDiv(FSub(y, One), FAdd(y, One))
             ln == FMul(FMul(Two, z), AtanhSeries(FMul(z, z), Zero, 35))
         IN FAdd(ln, FMul(FromInt(ee), Ln10))

(***************************************************************************)
(* bounds of the model and configuration of the rating objects             *)
(***************************************************************************)
MaxId == 3
MaxRows == 2
MaxThreads == 2
MaxMonth == 3
\* the argument tuples (month, num_threads, output_ratings) of the calls
CallArgs == {a \in (1..MaxMonth) \X (1..MaxThreads) \X BOOLEAN :
                a[3] = (a[1] % 2 = a[2] % 2)}
MaxCalls == 1
\* iterations a loop of the volatility solver is followed for
MaxSolverSteps == 40

Ids == 1..MaxId
Half == Dec(5, 1)
Outcomes == {Zero, Half, One}

\* constructor arguments Glicko(starting_deviation, c)
starting_deviation == FromInt(350)
c == FromInt(60)
DEFAULT_RATING == FromInt(1500)
Q == FDiv(FLog(FromInt(10)), FromInt(400))
M_PI == Dec(31415927, 7)

VARIABLES
    players,          \* the registry: std::map<int, Player>
    pc,               \* position of the caller in the object's life
    args,             \* arguments of the update_ratings call in progress
    player_games,     \* the game index built by get_player_games
    player_ids,       \* the vector built by get_player_ids
    updated_players,  \* the staging array of update_player_ratings
    threads,          \* per OpenMP thread: the loop iteration it executes
    next_i,           \* next loop index the dynamic schedule hands out
    total_loss,       \* the reduction variable
    ret,              \* what the last call returned or threw
    outputs,          \* the registries written to an output file
    calls,            \* number of update_ratings calls made
    players0,         \* history: the registry when update_ratings was entered
    scraper           \* the Go scraper: the objects its goroutines share

vars == <<players, pc, args, player_games, player_ids, updated_players,
          threads, next_i, total_loss, ret, outputs, calls, players0, scraper>>

(***************************************************************************)
(* Parquet sources.  A file is what opening it yields (open), the Arrow    *)
(* type of each column it holds (cols) and its rows.  An Arrow table has   *)
(* all its columns of the table's length, so the "Column lengths do not    *)
(* match" tests never fail and are left out.                               *)
(***************************************************************************)
GoodGameCols == [player_1 |-> "INT64", player_2 |-> "INT64", outcome |-> "FLOAT"]
GameRows == {r \in [player_1 : Ids, player_2 : Ids, outcome : Outcomes] :
                r.player_1 < r.player_2}
\* the files hold at most MaxRows games, of different pairs, in pair order
RowBefore(r, q) == r.player_1 < q.player_1
                   \/ (r.player_1 = q.player_1 /\ r.player_2 < q.player_2)
RowSeqs == {rs \in UNION {[1..n -> GameRows] : n \in 0..MaxRows} :
               \A n \in 1..(Len(rs) - 1) : RowBefore(rs[n], rs[n + 1])}
OneRow == <<[player_1 |-> 1, player_2 |-> 2, outcome |-> One]>>
Without(f, col) == [x \in (DOMAIN f) \ {col} |-> f[x]]

GameFiles ==
    {[open |-> "ok", cols |-> GoodGameCols, rows |-> rs] : rs \in RowSeqs}
    \cup {[open |-> o, cols |-> GoodGameCols, rows |-> OneRow] :
        o \in {"no_file", "not_parquet", "unreadable"}}
    \cup {[open |-> "ok", cols |-> Without(GoodGameCols, col), rows |-> OneRow] :
            col \in DOMAIN GoodGameCols}
    \cup {[open |-> "ok", cols |-> [GoodGameCols EXCEPT ![col] = "STRING"], rows |-> rs] :
            col \in DOMAIN GoodGameCols, rs \in {<<>>, OneRow}}

\* the exception the three reader steps of a Parquet load throw, "" if none
OpenError(file) ==
    IF file.open = "no_file" THEN "Failed to open"
    ELSE IF file.open = "not_parquet" THEN "Failed to create Parquet file reader"
    ELSE IF file.open = "unreadable" THEN "Failed to read Parquet file into table"
    ELSE ""

\* the exception Glicko::get_player_games throws on the file, "" if none: the
\* column types are tested inside the loop over the rows
get_player_games_error(file) ==
    IF OpenError(file) # "" THEN OpenError(file)
    ELSE IF \E col \in {"player_1", "player_2", "outcome"} : col \notin DOMAIN file.cols
         THEN "Missing required column in games file"
    ELSE IF Len(file.rows) = 0 THEN ""
    ELSE IF file.cols.player_1 # "INT64" THEN "Unsupported player_1 type in games file"
    ELSE IF file.cols.player_2 # "INT64" THEN "Unsupported player_2 type in games file"
    ELSE IF file.cols.outcome # "FLOAT" THEN "Unsupported outcome type in games file"
    ELSE ""

\* EntriesOf with the outcome of player_1 registered for player_2 as well
RECURSIVE EntriesOfUnflipped(_, _)
EntriesOfUnflipped(p, rows) ==
    IF rows = <<>> THEN <<>>
    ELSE LET r == rows[Len(rows)]
             before == EntriesOfUnflipped(p, SubSeq(rows, 1, Len(rows) - 1))
             first == IF r.player_1 = p
                      THEN Append(before, <<r.player_2, r.outcome>>)
                      ELSE before
         IN IF r.player_2 = p
            THEN Append(first, <<r.player_1, r.outcome>>)
            ELSE first

\* the list player_games[p] after the rows were accumulated in order
RECURSIVE EntriesOf(_, _)
EntriesOf(p, rows) ==
    IF rows = <<>> THEN <<>>
    ELSE LET r == rows[Len(rows)]
             before == EntriesOf(p, SubSeq(rows, 1, Len(rows) - 1))
             first == IF r.player_1 = p
                      THEN Append(before, <<r.player_2, r.outcome>>)
                      ELSE before
         IN IF r.player_2 = p
            THEN Append(first, <<r.player_1, FSub(One, r.outcome)>>)
            ELSE first

get_player_games(rows) ==
    [p \in {rows[n].player_1 : n \in 1..Len(rows)}
           \cup {rows[n].player_2 : n \in 1..Len(rows)} |-> EntriesOf(p, rows)]

\* the keys of the std::map in iteration order, which is ascending
RECURSIVE Ascending(_)
Ascending(S) ==
    IF S = {} THEN <<>>
    ELSE LET lo == CHOOSE x \in S : \A y \in S : x <= y
         IN <<lo>> \o Ascending(S \ {lo})

get_player_ids(games) == Ascending(DOMAIN games)

(***************************************************************************)
(* Ratings sources                                                         *)
(***************************************************************************)
GoodRatingCols == [fide_id |-> "INT64", rating |-> "DOUBLE", deviation |-> "DOUBLE",
                   last_month_played |-> "INT32"]
RatingRow(id) == [fide_id |-> id, rating |-> FromInt(1300 + 100 * id),
                  deviation |-> FromInt(400 - 100 * id), last_month_played |-> 1]
RatingRowsOf(S) == [n \in 1..Cardinality(S) |-> RatingRow(Ascending(S)[n])]
RatingFiles ==
    {[open |-> "ok", cols |-> GoodRatingCols, rows |-> RatingRowsOf(1..n)] : n \in 0..MaxId}
    \cup {[open |-> "no_file", cols |-> GoodRatingCols, rows |-> RatingRowsOf(Ids)],
          [open |-> "ok", cols |-> Without(GoodRatingCols, "deviation"),
           rows |-> RatingRowsOf(Ids)],
          [open |-> "ok", cols |-> [GoodRatingCols EXCEPT !.rating = "FLOAT"],
           rows |-> RatingRowsOf(Ids)]}

(***************************************************************************)
(* class Glicko                                                            *)
(***************************************************************************)
\* what std::map::operator[] inserts for a missing key: a value-initialised
\* Player, the struct having no default member initialisers
GlickoValueInit == [rating |-> Zero, deviation |-> Zero, last_month_played |-> 0]

\* players[id] as an rvalue, after the insertion operator[] makes
GlickoAt(reg, id) == IF id \in DOMAIN reg THEN reg[id] ELSE GlickoValueInit

Glicko_set_player_ratings_error(file) ==
    IF OpenError(file) # "" THEN OpenError(file)
    ELSE IF \E col \in {"fide_id", "rating", "deviation", "last_month_played"} :
                col \notin DOMAIN file.cols
         THEN "Missing required column"
    ELSE IF Len(file.rows) = 0 THEN ""
    ELSE IF file.cols.fide_id # "INT64" THEN "Unsupported fide_id type"
    ELSE IF file.cols.rating # "DOUBLE" THEN "Unsupported rating type"
    ELSE IF file.cols.deviation # "DOUBLE" THEN "Unsupported deviation type"
    ELSE IF file.cols.last_month_played # "INT32" THEN "Unsupported last_month_played type"
    ELSE ""

\* the registry after the rows were stored in order, a later row of an id
\* overwriting an earlier one
RECURSIVE GlickoStoreRows(_, _)
GlickoStoreRows(reg, rows) ==
    IF rows = <<>> THEN reg
    ELSE LET r == rows[1]
             p == [rating |-> r.rating, deviation |-> r.deviation,
                   last_month_played |-> r.last_month_played]
         IN GlickoStoreRows([id \in DOMAIN reg \cup {r.fide_id} |->
                                IF id = r.fide_id THEN p ELSE reg[id]],
                            Tail(rows))

update_player_deviations(reg, ids, month) ==
    [id \in DOMAIN reg \cup {ids[n] : n \in 1..Len(ids)} |->
        IF \E n \in 1..Len(ids) : ids[n] = id
        THEN [GlickoAt(reg, id) EXCEPT
                 !.deviation = FSqrt(FAdd(FMul(GlickoAt(reg, id).deviation,
                                               GlickoAt(reg, id).deviation),
                                          FMul(c, c))),
                 !.last_month_played = month]
        ELSE reg[id]]

\* the opponent's strength as the loop body of update_player_ratings finds it
GlickoOpponent(reg, opponent_id) ==
    IF opponent_id \in DOMAIN reg
    THEN [rating |-> reg[opponent_id].rating, deviation |-> reg[opponent_id].deviation]
    ELSE [rating |-> DEFAULT_RATING, deviation |-> starting_deviation]

Glicko_g(opponent_deviation) ==
    FDiv(One,
         FSqrt(FAdd(One,
                    FDiv(FMul(FMul(FromInt(3), FMul(Q, Q)),
                              FMul(opponent_deviation, opponent_deviation)),
                         FMul(M_PI, M_PI)))))

Glicko_E(g, rating, opponent_rating) ==
    FDiv(One,
         FAdd(One,
              FExp(FDiv(FMul(FNeg(g), FSub(rating, opponent_rating)),
                        FromInt(400)))))

\* one pass of the inner loop over a player's games: acc = [d, sum]
GlickoGame(acc, rating, opp, outcome) ==
    LET g == Glicko_g(opp.deviation)
        E == Glicko_E(g, rating, opp.rating)
    IN [sum |-> FAdd(acc.sum, FMul(g, FSub(outcome, E))),
        d |-> FAdd(acc.d, FMul(FMul(FMul(g, g), E), FSub(One, E)))]

\* d = 1 / std::pow(d, 2)
GlickoInvSq(d) == FDiv(One, FMul(d, d))

GlickoNewRating(player, acc) ==
    FAdd(player.rating,
         FMul(FDiv(Q, FAdd(FDiv(One, FMul(player.deviation, player.deviation)),
                           GlickoInvSq(acc.d))),
              acc.sum))

GlickoNewDeviation(player, acc) ==
    FSqrt(FAdd(FDiv(One, FMul(player.deviation, player.deviation)),
               GlickoInvSq(acc.d)))

NoArgs == [games_file |-> [open |-> "no_file", cols |-> GoodGameCols, rows |-> <<>>],
           month |-> 0, num_threads |-> 1, output_ratings |-> FALSE]
NoAcc == [d |-> Zero, sum |-> Zero]
IdleThread == [st |-> "idle", i |-> 0, j |-> 0, acc |-> NoAcc]
NoRet == [status |-> "none", what |-> "", value |-> Zero]
Thrown(msg) == [status |-> "thrown", what |-> msg, value |-> Zero]
Returned(v) == [status |-> "returned", what |-> "", value |-> v]
\* the team size of the parallel loop: "if (num_threads > 1)"
TeamSize(num_threads) == IF num_threads > 1 THEN num_threads ELSE 1
Empty == [id \in {} |-> GlickoValueInit]

GlickoInit ==
    /\ players = Empty
    /\ pc = "new"
    /\ args = NoArgs
    /\ player_games = Empty
    /\ player_ids = <<>>
    /\ updated_players = <<>>
    /\ threads = [t \in 1..MaxThreads |-> IdleThread]
    /\ next_i = 0
    /\ total_loss = Zero
    /\ ret = NoRet
    /\ outputs = <<>>
    /\ calls = 0
    /\ players0 = Empty
    /\ scraper = <<>>

Glicko_set_player_ratings(file) ==
    /\ UNCHANGED scraper
    /\ pc = "new"
    /\ pc' = "idle"
    /\ IF Glicko_set_player_ratings_error(file) # ""
       THEN /\ ret' = Thrown(Glicko_set_player_ratings_error(file))
            /\ UNCHANGED players
       ELSE /\ ret' = Returned(Zero)
            /\ players' = GlickoStoreRows(players, file.rows)
    /\ UNCHANGED <<args, player_games, player_ids, updated_players, threads,
                   next_i, total_loss, outputs, calls, players0>>

\* update_ratings up to the parallel loop of update_player_ratings:
\* get_player_games, get_player_ids, update_player_deviations and the
\* declarations that precede the loop
Glicko_update_ratings(file, month, num_threads, output_ratings) ==
    /\ UNCHANGED scraper
    /\ pc \in {"idle", "done", "failed"}
    /\ calls < MaxCalls
    /\ calls' = calls + 1
    /\ args' = [games_file |-> file, month |-> month, num_threads |-> num_threads,
                output_ratings |-> output_ratings]
    /\ players0' = players
    /\ IF get_player_games_error(file) # ""
       THEN /\ pc' = "failed"
            /\ ret' = Thrown(get_player_games_error(file))
            /\ UNCHANGED <<players, player_games, player_ids, updated_players,
                           threads, next_i, total_loss, outputs>>
       ELSE LET games == get_player_games(file.rows)
                ids == get_player_ids(games)
            IN /\ pc' = "loop"
               /\ player_games' = games
               /\ player_ids' = ids
               /\ players' = update_player_deviations(players, ids, month)
               /\ total_loss' = Zero
               /\ updated_players' = [n \in 1..Len(ids) |-> <<0, GlickoValueInit>>]
               /\ next_i' = 1
               /\ threads' = [t \in 1..MaxThreads |-> IdleThread]
               /\ ret' = NoRet
               /\ UNCHANGED outputs

\* a thread of the team takes the next iteration of the loop
Glicko_iter_start(t) ==
    /\ UNCHANGED scraper
    /\ pc = "loop"
    /\ t \in 1..TeamSize(args.num_threads)
    /\ threads[t].st = "idle"
    /\ next_i <= Len(player_ids)
    /\ threads' = [threads EXCEPT ![t] = [st |-> "games", i |-> next_i, j |-> 1,
                                          acc |-> NoAcc]]
    /\ next_i' = next_i + 1
    /\ UNCHANGED <<players, pc, args, player_games, player_ids, updated_players,
                   total_loss, ret, outputs, calls, players0>>

\* one pass of the loop over the games: reads the opponent in the registry
Glicko_iter_game(t) ==
    /\ UNCHANGED scraper
    /\ pc = "loop"
    /\ threads[t].st = "games"
    /\ LET player_id == player_ids[threads[t].i]
           games == player_games[player_id]
       IN threads' = [threads EXCEPT
              ![t].acc = GlickoGame(threads[t].acc, players[player_id].rating,
                                    GlickoOpponent(players, games[threads[t].j][1]),
                                    games[threads[t].j][2]),
              ![t].j = threads[t].j + 1,
              ![t].st = IF threads[t].j < Len(games) THEN "games" ELSE "rating"]
    /\ UNCHANGED <<players, pc, args, player_games, player_ids, updated_players,
                   next_i, total_loss, ret, outputs, calls, players0>>

\* player.rating += ..., player being a reference into the registry
Glicko_iter_rating(t) ==
    /\ UNCHANGED scraper
    /\ pc = "loop"
    /\ threads[t].st = "rating"
    /\ LET player_id == player_ids[threads[t].i]
       IN players' = [players EXCEPT ![player_id].rating =
                          GlickoNewRating(players[player_id], threads[t].acc)]
    /\ threads' = [threads EXCEPT ![t].st = "deviation"]
    /\ UNCHANGED <<pc, args, player_games, player_ids, updated_players,
                   next_i, total_loss, ret, outputs, calls, players0>>

\* player.deviation = ...; updated_players[i] = make_pair(player_id, player)
Glicko_iter_deviation(t) ==
    /\ UNCHANGED scraper
    /\ pc = "loop"
    /\ threads[t].st = "deviation"
    /\ LET player_id == player_ids[threads[t].i]
           player == [players[player_id] EXCEPT !.deviation =
                          GlickoNewDeviation(players[player_id], threads[t].acc)]
       IN /\ players' = [players EXCEPT ![player_id] = player]
          /\ updated_players' = [updated_players EXCEPT ![threads[t].i] =
                                     <<player_id, player>>]
    /\ threads' = [threads EXCEPT ![t] = IdleThread]
    /\ UNCHANGED <<pc, args, player_games, player_ids, next_i, total_loss, ret,
                   outputs, calls, players0>>

\* the registry with updated_players[1..n] stored into it in order
RECURSIVE GlickoStoreUpdated(_, _, _)
GlickoStoreUpdated(reg, updated, n) ==
    IF n = 0 THEN reg
    ELSE LET before == GlickoStoreUpdated(reg, updated, n - 1)
         IN [id \in DOMAIN before \cup {updated[n][1]} |->
                IF id = updated[n][1] THEN updated[n][2] ELSE before[id]]

\* after the loop: the average loss, the copy of updated_players into the
\* registry, and the return of update_ratings
Glicko_commit ==
    /\ UNCHANGED scraper
    /\ pc = "loop"
    /\ next_i > Len(player_ids)
    /\ \A t \in 1..MaxThreads : threads[t].st = "idle"
    /\ players' = GlickoStoreUpdated(players, updated_players, Len(player_ids))
    /\ ret' = Returned(FDiv(total_loss, FromInt(2 * Len(player_ids))))
    /\ pc' = "done"
    /\ UNCHANGED <<args, player_games, player_ids, updated_players, threads,
                   next_i, total_loss, outputs, calls, players0>>

GlickoNext ==
    \/ \E file \in RatingFiles : Glicko_set_player_ratings(file)
    \/ \E file \in GameFiles, a \in CallArgs :
            Glicko_update_ratings(file, a[1], a[2], a[3])
    \/ \E t \in 1..MaxThreads : Glicko_iter_start(t)
    \/ \E t \in 1..MaxThreads : Glicko_iter_game(t)
    \/ \E t \in 1..MaxThreads : Glicko_iter_rating(t)
    \/ \E t \in 1..MaxThreads : Glicko_iter_deviation(t)
    \/ Glicko_commit

SpecGlicko == GlickoInit /\ [][GlickoNext]_vars

(***************************************************************************)
(* Reference runs of the rating loop of Glicko::update_player_ratings      *)
(***************************************************************************)
\* [d, sum] of a player of the given rating after games[j..], every
\* opponent read in the registry reg
RECURSIVE GlickoAccumulate(_, _, _, _, _)
GlickoAccumulate(acc, rating, reg, games, j) ==
    IF j > Len(games) THEN acc
    ELSE GlickoAccumulate(GlickoGame(acc, rating, GlickoOpponent(reg, games[j][1]),
                                     games[j][2]),
                          rating, reg, games, j + 1)

\* the Player one iteration of the loop leaves, its opponents read in reg
GlickoIteration(own, reg, games) ==
    LET acc == GlickoAccumulate(NoAcc, own.rating, reg, games, 1)
        rated == [own EXCEPT !.rating = GlickoNewRating(own, acc)]
    IN [rated EXCEPT !.deviation = GlickoNewDeviation(rated, acc)]

\* the registry after iterations 1..n ran one after the other, in index order
RECURSIVE GlickoSerial(_, _, _, _)
GlickoSerial(reg, games, ids, n) ==
    IF n = 0 THEN reg
    ELSE LET before == GlickoSerial(reg, games, ids, n - 1)
         IN [before EXCEPT ![ids[n]] =
                GlickoIteration(before[ids[n]], before, games[ids[n]])]

\* binary_cross_entropy of glicko.cpp once pred is clamped
GlickoEntropy(pred, actual) ==
    FNeg(FAdd(FMul(actual, FLog(pred)),
              FMul(FSub(One, actual), FLog(FSub(One, pred)))))

\* binary_cross_entropy of glicko.cpp:
\* pred = std::max(std::min(pred, 1.0 - 1e-15), 1e-15)
Glicko_binary_cross_entropy(pred, actual) ==
    GlickoEntropy(IF FLt(FSub(One, Dec(1, 15)), pred)
                  THEN FSub(One, Dec(1, 15))
                  ELSE IF FLt(pred, Dec(1, 15)) THEN Dec(1, 15) ELSE pred,
                  actual)

\* loss plus one binary_cross_entropy term for each of games[j..], from the
\* expected score E the loop over the games computes for the entry
RECURSIVE GlickoLosses(_, _, _, _, _)
GlickoLosses(loss, rating, reg, games, j) ==
    IF j > Len(games) THEN loss
    ELSE GlickoLosses(
             FAdd(loss,
                  Glicko_binary_cross_entropy(
                      Glicko_E(Glicko_g(GlickoOpponent(reg, games[j][1]).deviation),
                               rating, GlickoOpponent(reg, games[j][1]).rating),
                      games[j][2])),
             rating, reg, games, j + 1)

\* the sum of these terms over iterations 1..n run one after the other
RECURSIVE GlickoSerialLoss(_, _, _, _)
GlickoSerialLoss(reg, games, ids, n) ==
    IF n = 0 THEN Zero
    ELSE GlickoLosses(GlickoSerialLoss(reg, games, ids, n - 1),
                      GlickoSerial(reg, games, ids, n - 1)[ids[n]].rating,
                      GlickoSerial(reg, games, ids, n - 1), games[ids[n]], 1)

\* the registry as the rating loop found it: after update_player_deviations
PrePeriod == update_player_deviations(players0, player_ids, args.month)
IdSet == {player_ids[n] : n \in 1..Len(player_ids)}
Pending == pc = "loop"
           /\ (next_i <= Len(player_ids) \/ \E t \in 1..MaxThreads : threads[t].st # "idle")
Strengths(reg) == [id \in DOMAIN reg |-> <<reg[id].rating, reg[id].deviation>>]

(***************************************************************************)
(* Claims                                                                  *)
(***************************************************************************)
\* C1: order independence of a period update of Glicko: whatever order the
\* players were processed in, the rating and deviation committed for each
\* player are those computed from the opponents' rating and deviation as
\* they were before any player's rating update of the period.
C1_CommittedFromPrePeriodValues ==
    pc = "done" =>
        \A id \in IdSet :
            LET r == GlickoIteration(PrePeriod[id], PrePeriod, player_games[id])
            IN players[id].rating = r.rating /\ players[id].deviation = r.deviation

\* C2: thread-count invariance of Glicko: with num_threads > 1, every
\* interleaving of the loop iterations commits the ratings and deviations of
\* the single-threaded run on the same registry and games.
C2_ParallelEqualsSerial ==
    (pc = "done" /\ args.num_threads > 1) =>
        Strengths(players) =
            Strengths(GlickoSerial(PrePeriod, player_games, player_ids, Len(player_ids)))

\* C3: commit is the only write path, behind a barrier: no rating or
\* deviation stored in the registry changes while a player's computation of
\* the period is still pending.
C3_NoRegistryWriteWhilePending ==
    [][Pending => Strengths(players') = Strengths(players)]_vars

\* C10: serialization on request: with output_ratings = true the new registry
\* is written out exactly once, after the commit; with output_ratings = false
\* nothing is written.
C10_OutputOnRequest ==
    pc = "done" =>
        IF args.output_ratings THEN outputs = <<players>> ELSE outputs = <<>>

\* C12: loss accumulation: the loss update_ratings sums up holds one binary
\* cross-entropy term per game-index entry (two per game record), each from
\* the expected score and the outcome of the entry, for every thread count.
C12_LossHasATermPerEntry ==
    pc = "done" =>
        total_loss = GlickoSerialLoss(PrePeriod, player_games, player_ids,
                                      Len(player_ids))

(***************************************************************************)
(* get_player_games on its own: the function reads nothing but the file,   *)
(* so it is applied to every sequence of up to MaxRows records over Ids,   *)
(* in any order, with repeated pairs and with a player against itself      *)
(***************************************************************************)
GamesInit ==
    /\ args \in {[NoArgs EXCEPT !.games_file =
                     [open |-> "ok", cols |-> GoodGameCols, rows |-> rs]] :
                 rs \in UNION {[1..n -> [player_1 : Ids, player_2 : Ids,
                                         outcome : Outcomes]] : n \in 0..MaxRows}}
    /\ players = Empty
    /\ pc = "new"
    /\ player_games = Empty
    /\ player_ids = <<>>
    /\ updated_players = <<>>
    /\ threads = [t \in 1..MaxThreads |-> IdleThread]
    /\ next_i = 0
    /\ total_loss = Zero
    /\ ret = NoRet
    /\ outputs = <<>>
    /\ calls = 0
    /\ players0 = Empty
    /\ scraper = <<>>

\* player_games = get_player_games(games_file); player_ids = get_player_ids(...)
Games_get_player_games ==
    /\ UNCHANGED scraper
    /\ pc = "new"
    /\ get_player_games_error(args.games_file) = ""
    /\ player_games' = get_player_games(args.games_file.rows)
    /\ player_ids' = get_player_ids(get_player_games(args.games_file.rows))
    /\ pc' = "games"
    /\ UNCHANGED <<players, args, updated_players, threads, next_i, total_loss,
                   ret, outputs, calls, players0>>

SpecGames == GamesInit /\ [][Games_get_player_games]_vars

\* the two entries of every record, in record order, each with the player
\* whose list it belongs to
SymmetrizedEntries(rows) ==
    [n \in 1..(2 * Len(rows)) |->
        IF n % 2 = 1
        THEN [owner |-> rows[(n + 1) \div 2].player_1,
              entry |-> <<rows[(n + 1) \div 2].player_2, rows[(n + 1) \div 2].outcome>>]
        ELSE [owner |-> rows[n \div 2].player_2,
              entry |-> <<rows[n \div 2].player_1, FSub(One, rows[n \div 2].outcome)>>]]

\* the entries of all[n..] that belong to p, in order
RECURSIVE EntriesOwnedBy(_, _, _)
EntriesOwnedBy(p, all, n) ==
    IF n > Len(all) THEN <<>>
    ELSE IF all[n].owner = p THEN <<all[n].entry>> \o EntriesOwnedBy(p, all, n + 1)
    ELSE EntriesOwnedBy(p, all, n + 1)

RECURSIVE SumOfLengths(_, _)
SumOfLengths(lists, S) ==
    IF S = {} THEN 0
    ELSE LET x == CHOOSE y \in S : TRUE
         IN Len(lists[x]) + SumOfLengths(lists, S \ {x})

\* C17: game index symmetrization: get_player_games returns a map in which
\* the list of player p is, in record order, the entry (b, outcome) of each
\* record (p, b, outcome) and the entry (a, 1.0 - outcome) of each record
\* (a, p, outcome); the entries are twice the records in number and the keys
\* are exactly the ids that appear in a record.
C17_GameIndexSymmetrized ==
    pc = "games" =>
        /\ DOMAIN player_games =
               {args.games_file.rows[n].player_1 : n \in 1..Len(args.games_file.rows)}
               \cup {args.games_file.rows[n].player_2 : n \in 1..Len(args.games_file.rows)}
        /\ \A p \in DOMAIN player_games :
               player_games[p] =
                   EntriesOwnedBy(p, SymmetrizedEntries(args.games_file.rows), 1)
        /\ SumOfLengths(player_games, DOMAIN player_games)
               = 2 * Len(args.games_file.rows)

\* C17 witness: two records were indexed, the second player of the first, a
\* win of its player_1, being the first player of the second
W17_PlayerOnBothSides ==
    /\ pc = "games"
    /\ Len(args.games_file.rows) = 2
    /\ args.games_file.rows[1].outcome = One
    /\ args.games_file.rows[1].player_1 # args.games_file.rows[1].player_2
    /\ args.games_file.rows[1].player_2 = args.games_file.rows[2].player_1
    /\ Len(player_games[args.games_file.rows[1].player_2]) >= 2
    /\ player_games[args.games_file.rows[1].player_2][1]
           = <<args.games_file.rows[1].player_1, Zero>>

(***************************************************************************)
(* class Glicko2                                                           *)
(***************************************************************************)
\* the default member initialisers of glicko2.h (starting_deviation{350.0}
\* is the value chosen for Glicko above)
starting_volatility == Dec(6, 2)
tau == Dec(6, 1)
epsilon == Dec(1, 6)
Scale == Dec(1737178, 4)

Good2RatingCols == [fide_id |-> "INT64", rating |-> "DOUBLE", deviation |-> "DOUBLE",
                    volatility |-> "DOUBLE", last_month_played |-> "INT32"]
Rating2Row(id) == [fide_id |-> id, rating |-> FromInt(1300 + 100 * id),
                   deviation |-> FromInt(400 - 100 * id), volatility |-> Dec(6, 2),
                   last_month_played |-> 1]
Rating2RowsOf(n) == [x \in 1..n |-> Rating2Row(x)]
\* the files hold the players 1..n, and one holds two players of the same
\* rating, deviation and volatility
Rating2Files ==
    {[open |-> "ok", cols |-> Good2RatingCols, rows |-> Rating2RowsOf(n)] : n \in 0..MaxId}
    \cup {[open |-> "ok", cols |-> Good2RatingCols,
           rows |-> [x \in 1..2 |-> [Rating2Row(x) EXCEPT !.rating = FromInt(1500),
                                                          !.deviation = FromInt(200)]]]}
    \cup {[open |-> "not_parquet", cols |-> Good2RatingCols, rows |-> Rating2RowsOf(MaxId)],
          [open |-> "ok", cols |-> Without(Good2RatingCols, "volatility"),
           rows |-> Rating2RowsOf(MaxId)],
          [open |-> "ok", cols |-> [Good2RatingCols EXCEPT !.last_month_played = "INT64"],
           rows |-> Rating2RowsOf(MaxId)]}

Glicko2ValueInit == [rating |-> Zero, deviation |-> Zero, volatility |-> Zero,
                     last_month_played |-> 0]
Glicko2At(reg, id) == IF id \in DOMAIN reg THEN reg[id] ELSE Glicko2ValueInit

Glicko2_set_player_ratings_error(file) ==
    IF OpenError(file) # "" THEN OpenError(file)
    ELSE IF \E col \in {"fide_id", "rating", "deviation", "volatility",
                        "last_month_played"} : col \notin DOMAIN file.cols
         THEN "Missing required column"
    ELSE IF Len(file.rows) = 0 THEN ""
    ELSE IF file.cols.fide_id # "INT64" THEN "Unsupported fide_id type"
    ELSE IF file.cols.rating # "DOUBLE" THEN "Unsupported rating type"
    ELSE IF file.cols.deviation # "DOUBLE" THEN "Unsupported deviation type"
    ELSE IF file.cols.volatility # "DOUBLE" THEN "Unsupported volatility type"
    ELSE IF file.cols.last_month_played # "INT32" THEN "Unsupported last_month_played type"
    ELSE ""

RECURSIVE Glicko2StoreRows(_, _)
Glicko2StoreRows(reg, rows) ==
    IF rows = <<>> THEN reg
    ELSE LET r == rows[1]
             p == [rating |-> r.rating, deviation |-> r.deviation,
                   volatility |-> r.volatility,
                   last_month_played |-> r.last_month_played]
         IN Glicko2StoreRows([id \in DOMAIN reg \cup {r.fide_id} |->
                                 IF id = r.fide_id THEN p ELSE reg[id]],
                             Tail(rows))

\* Glicko2::get_player_games accepts player_2 as INT32 or INT64
Glicko2_get_player_games_error(file) ==
    IF OpenError(file) # "" THEN OpenError(file)
    ELSE IF \E col \in {"player_1", "player_2", "outcome"} : col \notin DOMAIN file.cols
         THEN "Missing required column in games file"
    ELSE IF Len(file.rows) = 0 THEN ""
    ELSE IF file.cols.player_1 # "INT64" THEN "Unsupported player_1 type in games file"
    ELSE IF file.cols.player_2 \notin {"INT32", "INT64"}
         THEN "Unsupported player_2 type in games file"
    ELSE IF file.cols.outcome # "FLOAT" THEN "Unsupported outcome type in games file"
    ELSE ""

\* the body of the loop of update_player_ratings_and_deviations
Glicko2Decay(player, month) ==
    [player EXCEPT
        !.rating = FDiv(FSub(player.rating, FromInt(1500)), Scale),
        !.deviation =
            FSqrt(FAdd(FPow2(FDiv(player.deviation, Scale)),
                       FMul(FMul(FromInt(month - player.last_month_played - 1),
                                 player.volatility),
                            player.volatility))),
        !.last_month_played = month]

update_player_ratings_and_deviations(reg, ids, month) ==
    [id \in DOMAIN reg \cup {ids[n] : n \in 1..Len(ids)} |->
        IF \E n \in 1..Len(ids) : ids[n] = id
        THEN Glicko2Decay(Glicko2At(reg, id), month)
        ELSE reg[id]]

Glicko2_f(x, a, deviation, v, delta) ==
    FSub(FDiv(FMul(FExp(x),
                   FSub(FSub(FSub(FMul(delta, delta), FMul(deviation, deviation)), v),
                        FExp(x))),
              FMul(Two, FPow2(FAdd(FAdd(FMul(deviation, deviation), v), FExp(x))))),
         FDiv(FSub(x, a), FMul(tau, tau)))

\* "int k = 1; while (f(A - k * tau, ...) < 0.0) ++k; B = A - k * tau;":
\* [ok, B], ok = FALSE when the loop is still running after n more passes
RECURSIVE Glicko2Bracket(_, _, _, _, _, _)
Glicko2Bracket(k, A, deviation, v, delta, n) ==
    IF ~FLt(Glicko2_f(FSub(A, FMul(FromInt(k), tau)), A, deviation, v, delta), Zero)
    THEN [ok |-> TRUE, B |-> FSub(A, FMul(FromInt(k), tau))]
    ELSE IF n = 0 THEN [ok |-> FALSE, B |-> A]
    ELSE Glicko2Bracket(k + 1, A, deviation, v, delta, n - 1)

\* the loop "while (std::abs(B - A) > epsilon)": [ok, A], ok = FALSE when
\* the loop is still running after n more passes; Glicko2FalsiStep is the
\* loop body once C and f_C are computed
RECURSIVE Glicko2Falsi(_, _, _, _, _, _, _, _)
RECURSIVE Glicko2FalsiStep(_, _, _, _, _, _, _, _, _, _)
Glicko2Falsi(A, B, f_A, f_B, deviation, v, delta, n) ==
    IF ~FGt(FAbs(FSub(B, A)), epsilon) THEN [ok |-> TRUE, A |-> A]
    ELSE IF n = 0 THEN [ok |-> FALSE, A |-> A]
    ELSE Glicko2FalsiStep(A, B, f_A, f_B,
                          FAdd(A, FDiv(FMul(FSub(A, B), f_A), FSub(f_B, f_A))),
                          Glicko2_f(FAdd(A, FDiv(FMul(FSub(A, B), f_A), FSub(f_B, f_A))),
                                    A, deviation, v, delta),
                          deviation, v, delta, n)

Glicko2FalsiStep(A, B, f_A, f_B, C, f_C, deviation, v, delta, n) ==
    IF FLt(f_C, Zero)
    THEN Glicko2Falsi(A, C, f_A, f_C, deviation, v, delta, n - 1)
    ELSE Glicko2Falsi(C, B, f_C, f_B, deviation, v, delta, n - 1)

\* "if (B <= 0.0) { ... }": [ok, B] from the first value of B
Glicko2UpperBound(A, B, deviation, v, delta) ==
    IF FLe(B, Zero) THEN Glicko2Bracket(1, A, deviation, v, delta, MaxSolverSteps)
    ELSE [ok |-> TRUE, B |-> B]

\* "return std::exp(A/2)" with the A the root-finding loop ends on
Glicko2Volatility(bracket_ok, root) ==
    [ok |-> bracket_ok /\ root.ok, value |-> FExp(FDiv(root.A, Two))]

\* get_new_volatility from "double f_A = ..." on
Glicko2Root(A, bound, deviation, v, delta) ==
    Glicko2Volatility(bound.ok,
                      Glicko2Falsi(A, bound.B, Glicko2_f(A, A, deviation, v, delta),
                                   Glicko2_f(bound.B, A, deviation, v, delta),
                                   deviation, v, delta, MaxSolverSteps))

\* get_new_volatility from "double B = ..." on
Glicko2FromA(A, deviation, v, delta) ==
    Glicko2Root(A,
                Glicko2UpperBound(A,
                    FLog(FSub(FSub(FMul(delta, delta), FMul(deviation, deviation)), v)),
                    deviation, v, delta),
                deviation, v, delta)

\* [ok, value]: the value get_new_volatility returns, ok = FALSE when one of
\* its loops is still running after MaxSolverSteps passes
get_new_volatility(deviation, volatility, v, delta) ==
    Glicko2FromA(FMul(Two, FLog(volatility)), deviation, v, delta)

binary_cross_entropy(expected_score, outcome) ==
    FSub(FMul(FNeg(outcome), FLog(expected_score)),
         FMul(FSub(One, outcome), FLog(FSub(One, expected_score))))

\* the opponent's strength the loop body of Glicko2::update_player_ratings
\* uses: opponent_it is looked up and never read
Glicko2Opponent(reg, opponent_id) ==
    [rating |-> DEFAULT_RATING, deviation |-> starting_deviation]

Glicko2_g(opponent_deviation) ==
    FDiv(One,
         FSqrt(FAdd(One,
                    FMul(FromInt(3),
                         FPow2(FDiv(FDiv(opponent_deviation, Scale), M_PI))))))

Glicko2_expected_score(g, rating, opponent_rating) ==
    FDiv(One,
         FAdd(One,
              FExp(FDiv(FMul(FMul(FNeg(g), FSub(rating, opponent_rating)), Scale),
                        FromInt(400)))))

\* the three "+=" of the loop over a player's games: acc = [v_sum, g_sum, loss]
Glicko2Sums(acc, g, expected_score, outcome) ==
    [v_sum |-> FAdd(acc.v_sum,
                    FMul(FMul(FPow2(g), expected_score), FSub(One, expected_score))),
     g_sum |-> FAdd(acc.g_sum, FMul(g, FSub(outcome, expected_score))),
     loss |-> FAdd(acc.loss, binary_cross_entropy(expected_score, outcome))]

\* one pass of the loop over a player's games
Glicko2Game(acc, rating, opp, outcome) ==
    Glicko2Sums(acc, Glicko2_g(opp.deviation),
                Glicko2_expected_score(Glicko2_g(opp.deviation), rating, opp.rating),
                outcome)

RECURSIVE Glicko2Accumulate(_, _, _, _, _)
Glicko2Accumulate(acc, rating, reg, games, j) ==
    IF j > Len(games) THEN acc
    ELSE Glicko2Accumulate(Glicko2Game(acc, rating, Glicko2Opponent(reg, games[j][1]),
                                       games[j][2]),
                           rating, reg, games, j + 1)

\* "player.deviation = ...; player.rating += ...", volatility already stored
Glicko2Stored(player, g_sum, v, new_deviation) ==
    [player EXCEPT
        !.deviation = FDiv(One, FSqrt(FDiv(One, FAdd(FMul(new_deviation, new_deviation),
                                                     FDiv(One, v))))),
        !.rating = FAdd(player.rating, FMul(FMul(new_deviation, new_deviation), g_sum))]

\* the loop body from "player.volatility = new_volatility" on
Glicko2Volatile(player, g_sum, v, new_volatility) ==
    Glicko2Stored([player EXCEPT !.volatility = new_volatility], g_sum, v,
                  FDiv(One, FSqrt(FAdd(FDiv(One, FPow2(player.deviation)),
                                       FDiv(One, FPow2(new_volatility))))))

\* the loop body from "double delta = v * g_sum" on
Glicko2Solved(player, acc, v, vol) ==
    [ok |-> vol.ok, player |-> Glicko2Volatile(player, acc.g_sum, v, vol.value),
     loss |-> acc.loss]

\* the loop body after the loop over the games: [ok, player, loss], ok =
\* FALSE when get_new_volatility is still looping
Glicko2Rated(player, acc) ==
    Glicko2Solved(player, acc, FDiv(One, acc.v_sum),
                  get_new_volatility(player.deviation, player.volatility,
                                     FDiv(One, acc.v_sum),
                                     FMul(FDiv(One, acc.v_sum), acc.g_sum)))

\* one pass of the loop over player_ids, the registry being reg and the
\* local loss being loss: the Player it leaves and the loss after it
Glicko2Iteration(own, reg, games, loss) ==
    Glicko2Rated(own, Glicko2Accumulate([v_sum |-> Zero, g_sum |-> Zero, loss |-> loss],
                                         own.rating, reg, games, 1))

Glicko2_set_player_ratings(file) ==
    /\ UNCHANGED scraper
    /\ pc = "new"
    /\ pc' = "idle"
    /\ IF Glicko2_set_player_ratings_error(file) # ""
       THEN /\ ret' = Thrown(Glicko2_set_player_ratings_error(file))
            /\ UNCHANGED players
       ELSE /\ ret' = Returned(Zero)
            /\ players' = Glicko2StoreRows(players, file.rows)
    /\ UNCHANGED <<args, player_games, player_ids, updated_players, threads,
                   next_i, total_loss, outputs, calls, players0>>

\* Glicko2::update_ratings up to the loop of update_player_ratings:
\* get_player_games, get_player_ids, update_player_ratings_and_deviations
\* and "double loss = 0.0" (updated_players is declared and never assigned)
Glicko2_update_ratings(file, month, num_threads, output_ratings) ==
    /\ UNCHANGED scraper
    /\ pc \in {"idle", "done", "failed"}
    /\ calls < MaxCalls
    /\ calls' = calls + 1
    /\ args' = [games_file |-> file, month |-> month, num_threads |-> num_threads,
                output_ratings |-> output_ratings]
    /\ players0' = players
    /\ IF Glicko2_get_player_games_error(file) # ""
       THEN /\ pc' = "failed"
            /\ ret' = Thrown(Glicko2_get_player_games_error(file))
            /\ UNCHANGED <<players, player_games, player_ids, next_i, total_loss>>
       ELSE LET games == get_player_games(file.rows)
                ids == get_player_ids(games)
            IN /\ pc' = "loop"
               /\ player_games' = games
               /\ player_ids' = ids
               /\ players' = update_player_ratings_and_deviations(players, ids, month)
               /\ total_loss' = Zero
               /\ next_i' = 1
               /\ ret' = NoRet
    /\ UNCHANGED <<updated_players, threads, outputs>>

\* one pass of the loop over player_ids in Glicko2::update_player_ratings;
\* the pass does not end while get_new_volatility is still looping
Glicko2_iter ==
    /\ UNCHANGED scraper
    /\ pc = "loop"
    /\ next_i <= Len(player_ids)
    /\ \E r \in {Glicko2Iteration(players[player_ids[next_i]], players,
                                  player_games[player_ids[next_i]], total_loss)} :
            /\ r.ok
            /\ players' = [players EXCEPT ![player_ids[next_i]] = r.player]
            /\ total_loss' = r.loss
    /\ next_i' = next_i + 1
    /\ UNCHANGED <<pc, args, player_games, player_ids, updated_players, threads,
                   ret, outputs, calls, players0>>

\* "return loss / (2 * player_ids.size())"
Glicko2_return ==
    /\ UNCHANGED scraper
    /\ pc = "loop"
    /\ next_i > Len(player_ids)
    /\ ret' = Returned(FDiv(total_loss, FromInt(2 * Len(player_ids))))
    /\ pc' = "done"
    /\ UNCHANGED <<players, args, player_games, player_ids, updated_players,
                   threads, next_i, total_loss, outputs, calls, players0>>

Glicko2Next ==
    \/ \E file \in Rating2Files : Glicko2_set_player_ratings(file)
    \/ \E file \in GameFiles, a \in CallArgs :
            Glicko2_update_ratings(file, a[1], a[2], a[3])
    \/ Glicko2_iter
    \/ Glicko2_return

SpecGlicko2 == GlickoInit /\ [][Glicko2Next]_vars


(***************************************************************************)
(* Claims on class Glicko2                                                 *)
(***************************************************************************)
\* C4: no-game invariant: a player that is in the registry and absent from
\* the period's game records has, after update_ratings, its rating and
\* volatility unchanged and a deviation strictly larger than before, or equal
\* only if no period has elapsed since last_month_played.
C4_NoGameInvariant ==
    pc = "done" =>
        \A id \in DOMAIN players0 \ IdSet :
            /\ players[id].rating = players0[id].rating
            /\ players[id].volatility = players0[id].volatility
            /\ \/ FGt(players[id].deviation, players0[id].deviation)
               \/ /\ players[id].deviation = players0[id].deviation
                  /\ args.month - players0[id].last_month_played - 1 <= 0

\* C5: default materialization: a player id that appears in the period's
\* game records and is not in the registry enters the rating steps as the
\* decayed default state: the default rating 1500 on the internal scale, the
\* starting volatility, and a deviation not below the starting deviation.
C5_DefaultMaterialization ==
    (pc = "loop" /\ next_i = 1) =>
        \A id \in IdSet \ DOMAIN players0 :
            /\ players[id].rating = FDiv(FSub(DEFAULT_RATING, FromInt(1500)), Scale)
            /\ players[id].volatility = starting_volatility
            /\ FLe(FDiv(starting_deviation, Scale), players[id].deviation)

\* C7: chaining on one scale: after Glicko2::update_ratings returns, the
\* stored rating and deviation of every updated player are the results of
\* the period converted back to the display scale.
C7_StoredOnDisplayScale ==
    pc = "done" =>
        \A id \in IdSet :
            \E r \in {Glicko2Iteration(Glicko2Decay(Glicko2At(players0, id), args.month),
                                       players0, player_games[id], Zero)} :
                /\ players[id].rating = FAdd(FMul(r.player.rating, Scale), FromInt(1500))
                /\ players[id].deviation = FMul(r.player.deviation, Scale)

\* C8: all-or-nothing on schema errors: when the games source cannot be
\* opened, lacks one of the columns player_1 / player_2 / outcome, or has a
\* column of an unsupported type, update_ratings raises an error before any
\* per-player computation and leaves the registry as it was before the call.
C8_SchemaErrorAborts ==
    (calls > 0
     /\ \/ args.games_file.open # "ok"
        \/ \E col \in {"player_1", "player_2", "outcome"} :
                col \notin DOMAIN args.games_file.cols
        \/ args.games_file.cols.player_1 # "INT64"
        \/ args.games_file.cols.player_2 \notin {"INT32", "INT64"}
        \/ args.games_file.cols.outcome # "FLOAT")
    => (pc = "failed" /\ ret.status = "thrown" /\ players = players0)

\* C11: loss denominator: the average loss update_ratings returns is the sum
\* of the per-entry losses divided by twice the number of game records of the
\* period.
C11_LossDividedByTwiceRecords ==
    pc = "done" =>
        ret.value = FDiv(total_loss, FromInt(2 * Len(args.games_file.rows)))

\* C13: stability bounds: after the update of a player with at least one
\* game the stored volatility is at most the ceiling 2.8 and the stored
\* deviation at most the ceiling 2.9 of the internal scale.
C13_StabilityBounds ==
    pc = "done" =>
        \A id \in IdSet :
            /\ FLe(players[id].volatility, Dec(28, 1))
            /\ FLe(players[id].deviation, Dec(29, 1))

\* C15: symmetry: when two players of identical pre-period rating and
\* deviation play exactly one game against each other in the period and it
\* is a draw, update_ratings leaves both ratings equal to each other and
\* unchanged (the stored value being the pre-period rating, on the display
\* scale or on the internal scale).
C15_DrawBetweenEquals ==
    (/\ pc = "done"
     /\ Len(args.games_file.rows) = 1
     /\ \E r \in {args.games_file.rows[1]} :
            /\ r.outcome = Half
            /\ {r.player_1, r.player_2} \subseteq DOMAIN players0
            /\ players0[r.player_1].rating = players0[r.player_2].rating
            /\ players0[r.player_1].deviation = players0[r.player_2].deviation)
    => \E r \in {args.games_file.rows[1]} :
            /\ players[r.player_1].rating = players[r.player_2].rating
            /\ players[r.player_1].rating \in
                   {players0[r.player_1].rating,
                    FDiv(FSub(players0[r.player_1].rating, FromInt(1500)), Scale)}

\* C18: opponent strength comes from the snapshot: for every game entry of
\* the player the loop of Glicko2::update_player_ratings is about to process
\* whose opponent is in the registry, g and the expected score are those
\* computed from the opponent's pre-period rating and deviation.
C18_OpponentReadFromRegistry ==
    (pc = "loop" /\ next_i <= Len(player_ids)) =>
        \A j \in 1..Len(player_games[player_ids[next_i]]) :
            \E opp \in {player_games[player_ids[next_i]][j][1]} :
                opp \in DOMAIN players0 =>
                    /\ Glicko2_g(Glicko2Opponent(players, opp).deviation)
                           = Glicko2_g(players0[opp].deviation)
                    /\ Glicko2_expected_score(
                           Glicko2_g(Glicko2Opponent(players, opp).deviation),
                           players[player_ids[next_i]].rating,
                           Glicko2Opponent(players, opp).rating)
                       = Glicko2_expected_score(
                             Glicko2_g(players0[opp].deviation),
                             players[player_ids[next_i]].rating,
                             players0[opp].rating)

\* C19: decay is monotone: for every player the decay step processes, the
\* squared deviation after the step is at least the squared internal-scale
\* deviation before it, and last_month_played is month afterwards.
C19_DecayMonotone ==
    (pc = "loop" /\ next_i = 1) =>
        \A id \in IdSet :
            /\ FLe(FPow2(FDiv(Glicko2At(players0, id).deviation, Scale)),
                   FPow2(players[id].deviation))
            /\ players[id].last_month_played = args.month


\* C30: empty period: when update_ratings is called with a games source that
\* contains zero game records, it changes no player in the registry and
\* returns a well-defined finite average loss (no division by a zero count).
C30_EmptyPeriod ==
    (pc = "done" /\ Len(args.games_file.rows) = 0) =>
        /\ players = players0
        /\ ret.status = "returned"
        /\ ret.value.k = "num"

(***************************************************************************)
(* The C program (glicko2_update and main)                                 *)
(***************************************************************************)
BASE_RATING == FromInt(1500)
BASE_RD == FromInt(350)
TAU == Dec(2, 1)

\* a field of a Player that was never assigned, and the values a read of it
\* is followed with
Uninit == [k |-> "uninit", m |-> 0, e |-> 0]
UninitValues == {Zero, NaN}

\* the ratings file: lines "id rating rd volatility"; bad is the number of
\* the field of the line that does not parse, 0 if all four parse
CRatingLine(id) == [id |-> id, rating |-> FromInt(1300 + 100 * id),
                    rd |-> IF id = MaxId THEN FromInt(10) ELSE FromInt(400 - 100 * id),
                    volatility |-> Dec(6, 2), bad |-> 0]
CRatingLines(n) == [x \in 1..n |-> CRatingLine(x)]
CRatingFiles ==
    {[open |-> TRUE, rows |-> CRatingLines(n)] : n \in 0..MaxId}
    \cup {[open |-> TRUE, rows |-> [CRatingLines(MaxId) EXCEPT ![n].bad = 3]] : n \in 1..MaxId}
    \cup {[open |-> FALSE, rows |-> CRatingLines(MaxId)]}

\* the games file: records "id count" followed by count lines "opponent
\* score"; bad = TRUE when a game line of the last record does not parse
CRecordsOf(games) == [n \in 1..Len(get_player_ids(games)) |->
                        [id |-> get_player_ids(games)[n],
                         games |-> games[get_player_ids(games)[n]]]]
CGameFiles ==
    {[open |-> TRUE, records |-> CRecordsOf(get_player_games(rs)), bad |-> FALSE] :
        rs \in {q \in RowSeqs : Len(q) = MaxRows =>
                                    \A n \in 1..Len(q) : q[n].outcome = One}}
    \cup {[open |-> TRUE,
           records |-> <<[id |-> r.player_1, games |-> <<<<r.player_2, r.outcome>>>>]>>,
           bad |-> FALSE] : r \in GameRows}
    \cup {[open |-> FALSE, records |-> <<>>, bad |-> FALSE],
          [open |-> TRUE, records |-> <<[id |-> 1, games |-> <<<<2, One>>>>]>>,
           bad |-> TRUE]}

\* the runs of the program: the two input files, and whether
\* extreme_cases.log and the output file can be opened for writing
CRuns == {r \in [ratings_file : CRatingFiles, games_file : CGameFiles,
                 log_ok : BOOLEAN, out_ok : BOOLEAN] :
            /\ r.log_ok \/ r.out_ok
            /\ (r.log_ok /\ r.out_ok)
               \/ r.ratings_file = [open |-> TRUE, rows |-> CRatingLines(MaxId)]}

retrieve(table, id) == id \in DOMAIN table

\* insert: id, rating, rd and volatility are copied from the argument, games
\* is emptied, new_rating and new_rd are never assigned.  The table is kept
\* as a map from id here: the ratings files of CRatingFiles hold an id once
\* and add_game inserts an id that retrieve did not find, so that a chain
\* never holds two Players of one id (the chains themselves follow below,
\* with CTable_insert)
insert(table, player) ==
    [id \in DOMAIN table \cup {player.id} |->
        IF id \in DOMAIN table THEN table[id]
        ELSE [rating |-> player.rating, rd |-> player.rd,
              volatility |-> player.volatility, new_rating |-> Uninit,
              new_rd |-> Uninit, games |-> <<>>]]

add_game(table, id, game) ==
    [insert(table, [id |-> id, rating |-> FromInt(1500), rd |-> FromInt(350),
                    volatility |-> Dec(6, 2)])
        EXCEPT ![id].games = Append(@, game)]

\* the table after the game lines games[j..] of the record of id
RECURSIVE CAddGames(_, _, _, _)
CAddGames(table, id, games, j) ==
    IF j > Len(games) THEN table
    ELSE CAddGames(add_game(table, id, games[j]), id, games, j + 1)

\* the table after the records n.. of the games file
RECURSIVE CReadGames(_, _, _)
CReadGames(table, records, n) ==
    IF n > Len(records) THEN table
    ELSE CReadGames(CAddGames(table, records[n].id, records[n].games, 1), records, n + 1)

\* f, from its local ex = exp(x)
C_f_ex(ex, x, delta, v, A) ==
    FSub(FDiv(FMul(ex, FSub(FSub(FMul(delta, delta), v), ex)),
              FMul(Two, FPow2(FAdd(v, ex)))),
         FDiv(FSub(x, A), FPow2(TAU)))

C_f(x, delta, v, A) == C_f_ex(FExp(x), x, delta, v, A)

C_g(RD) ==
    FDiv(One, FSqrt(FAdd(One, FDiv(FMul(FromInt(3), FPow2(RD)), FPow2(M_PI)))))

C_E(mu, mu_j, RD_j) ==
    FDiv(One, FAdd(One, FExp(FMul(FNeg(C_g(RD_j)), FSub(mu, mu_j)))))

\* the two "+=" of the loop over the games: acc = [v_inv, delta_sum]
CSums(acc, g_j, E_j, score) ==
    [v_inv |-> FAdd(acc.v_inv, FMul(FMul(FPow2(g_j), E_j), FSub(One, E_j))),
     delta_sum |-> FAdd(acc.delta_sum, FMul(g_j, FSub(score, E_j)))]

\* one pass of the loop over the games: "if (!opponent) continue;"
CGame(acc, mu, table, game) ==
    IF ~retrieve(table, game[1]) THEN acc
    ELSE CSums(acc, C_g(FDiv(table[game[1]].rd, Scale)),
               C_E(mu, FDiv(FSub(table[game[1]].rating, FromInt(1500)), Scale),
                   FDiv(table[game[1]].rd, Scale)),
               game[2])

RECURSIVE CAccumulate(_, _, _, _, _)
CAccumulate(acc, mu, table, games, i) ==
    IF i > Len(games) THEN acc
    ELSE CAccumulate(CGame(acc, mu, table, games[i]), mu, table, games, i + 1)

\* "int k = 1; while (f(a - k * TAU, delta, v, A) < 0) k++; B = a - k * TAU;":
\* [ok, B], ok = FALSE when the loop is still running after n more passes
RECURSIVE CBracket(_, _, _, _, _)
CBracket(k, a, delta, v, n) ==
    IF ~FLt(C_f(FSub(a, FMul(FromInt(k), TAU)), delta, v, a), Zero)
    THEN [ok |-> TRUE, B |-> FSub(a, FMul(FromInt(k), TAU))]
    ELSE IF n = 0 THEN [ok |-> FALSE, B |-> a]
    ELSE CBracket(k + 1, a, delta, v, n - 1)

\* the loop "while (fabs(B - A) > epsilon)": [ok, A, left], ok = FALSE when
\* the loop is still running after n more passes, left the passes of the n
\* it did not make; CIllinoisStep is the loop body once C and fc are computed
RECURSIVE CIllinois(_, _, _, _, _, _, _)
RECURSIVE CIllinoisStep(_, _, _, _, _, _, _, _, _)
CIllinois(A, B, fa, fb, delta, v, n) ==
    IF ~FGt(FAbs(FSub(B, A)), Dec(1, 6)) THEN [ok |-> TRUE, A |-> A, left |-> n]
    ELSE IF n = 0 THEN [ok |-> FALSE, A |-> A, left |-> 0]
    ELSE CIllinoisStep(A, B, fa, fb,
                       FAdd(A, FDiv(FMul(FSub(A, B), fa), FSub(fb, fa))),
                       C_f(FAdd(A, FDiv(FMul(FSub(A, B), fa), FSub(fb, fa))), delta, v, A),
                       delta, v, n)

CIllinoisStep(A, B, fa, fb, C, fc, delta, v, n) ==
    IF FLt(FMul(fc, fb), Zero)
    THEN CIllinois(B, C, fb, fc, delta, v, n - 1)
    ELSE CIllinois(A, C, FDiv(fa, Two), fc, delta, v, n - 1)

\* "if (pow(delta, 2.0) > pow(phi, 2.0) + v) ... else ...": [ok, B]
CUpperBound(a, phi, delta, v) ==
    IF FGt(FPow2(delta), FAdd(FPow2(phi), v))
    THEN [ok |-> TRUE, B |-> FLog(FSub(FSub(FPow2(delta), FPow2(phi)), v))]
    ELSE CBracket(1, a, delta, v, MaxSolverSteps)

\* glicko2_update from "double new_mu = ..." on
CStore(target, mu, delta_sum, new_volatility, new_phi) ==
    [target EXCEPT
        !.new_rating = FAdd(FMul(FAdd(mu, FMul(FPow2(new_phi), delta_sum)), Scale),
                            FromInt(1500)),
        !.new_rd = FMul(new_phi, Scale),
        !.volatility = new_volatility]

\* glicko2_update from the second "Log extreme cases" on: the target it
\* leaves and the number of entries it appends to extreme_cases.log
CDeviated(target, mu, delta_sum, new_volatility, new_phi, logged, log_ok) ==
    IF (FLt(new_phi, Dec(1, 1)) \/ FGt(new_phi, Dec(28, 1))) /\ ~log_ok
    THEN [target |-> target, logged |-> logged]
    ELSE [target |-> CStore(target, mu, delta_sum, new_volatility,
                            IF FGt(new_phi, Dec(29, 1)) THEN Dec(29, 1) ELSE new_phi),
          logged |-> IF FLt(new_phi, Dec(1, 1)) \/ FGt(new_phi, Dec(28, 1))
                     THEN logged + 1 ELSE logged]

\* glicko2_update from "double phi_star = ..." on
CClamped(target, mu, phi, v, delta_sum, new_volatility, logged, log_ok) ==
    CDeviated(target, mu, delta_sum, new_volatility,
              FDiv(One, FSqrt(FAdd(FDiv(One, FPow2(FSqrt(FAdd(FPow2(phi),
                                                              FPow2(new_volatility))))),
                                   FDiv(One, v)))),
              logged, log_ok)

\* glicko2_update from the first "Log extreme cases" on
CVolatile(target, mu, phi, v, delta_sum, new_volatility, log_ok) ==
    IF FGt(new_volatility, One) /\ ~log_ok
    THEN [target |-> target, logged |-> 0]
    ELSE CClamped(target, mu, phi, v, delta_sum,
                  IF FGt(new_volatility, Dec(28, 1)) THEN Dec(28, 1) ELSE new_volatility,
                  IF FGt(new_volatility, One) THEN 1 ELSE 0, log_ok)

\* glicko2_update from "double new_volatility = exp(A / 2.0)" on, root being
\* [ok, A, left] at the end of the root-finding loop; passes is the number
\* of passes the root-finding loop made
CSolved(target, mu, phi, v, delta_sum, bound_ok, root, log_ok) ==
    [ok |-> bound_ok /\ root.ok, passes |-> MaxSolverSteps - root.left,
     result |-> CVolatile(target, mu, phi, v, delta_sum, FExp(FDiv(root.A, Two)), log_ok)]

\* glicko2_update from "double epsilon = 0.000001" on, bound being [ok, B]
CBounded(target, mu, phi, v, delta, delta_sum, a, bound, log_ok) ==
    CSolved(target, mu, phi, v, delta_sum, bound.ok,
            CIllinois(a, bound.B, C_f(a, delta, v, a), C_f(bound.B, delta, v, a),
                      delta, v, MaxSolverSteps),
            log_ok)

\* glicko2_update from "double a = log(pow(target->volatility, 2.0))" on
CSolve(target, mu, phi, v, delta, delta_sum, a, log_ok) ==
    CBounded(target, mu, phi, v, delta, delta_sum, a,
             CUpperBound(a, phi, delta, v), log_ok)

\* glicko2_update from "double v = 1.0 / v_inv" on, acc = [v_inv, delta_sum]
CSummed(target, mu, phi, acc, log_ok) ==
    CSolve(target, mu, phi, FDiv(One, acc.v_inv),
           FMul(FDiv(One, acc.v_inv), acc.delta_sum), acc.delta_sum,
           FLog(FPow2(target.volatility)), log_ok)

\* glicko2_update(target, target->games, ...): [ok, passes, result], result
\* being the target it leaves and the number of entries appended to
\* extreme_cases.log
glicko2_update(target, table, log_ok) ==
    CSummed(target, FDiv(FSub(target.rating, FromInt(1500)), Scale),
            FDiv(target.rd, Scale),
            CAccumulate([v_inv |-> Zero, delta_sum |-> Zero],
                        FDiv(FSub(target.rating, FromInt(1500)), Scale),
                        table, target.games, 1),
            log_ok)

\* apply_new_ratings, a read of a new_rating or new_rd never assigned being
\* followed with the value garbage
apply_new_ratings(table, garbage) ==
    [id \in DOMAIN table |->
        [table[id] EXCEPT
            !.rating = IF table[id].new_rating = Uninit THEN garbage
                       ELSE table[id].new_rating,
            !.rd = IF table[id].new_rd = Uninit THEN garbage ELSE table[id].new_rd]]

\* the lines write_to_file prints
COutput(table) ==
    [id \in DOMAIN table |-> <<table[id].rating, table[id].rd, table[id].volatility>>]


\* main up to the loop that reads the ratings file
C_main(run) ==
    /\ UNCHANGED scraper
    /\ pc = "new"
    /\ args' = run
    /\ IF run.ratings_file.open
       THEN pc' = "load" /\ next_i' = 1 /\ UNCHANGED ret
       ELSE pc' = "exit" /\ ret' = Returned(One) /\ UNCHANGED next_i
    /\ UNCHANGED <<players, player_games, player_ids, updated_players, threads,
                   total_loss, outputs, calls, players0>>

\* one pass of "while (fscanf(rating_file, ...) == 4)"
C_load_line ==
    /\ UNCHANGED scraper
    /\ pc = "load"
    /\ next_i <= Len(args.ratings_file.rows)
    /\ args.ratings_file.rows[next_i].bad = 0
    /\ players' = insert(players, args.ratings_file.rows[next_i])
    /\ next_i' = next_i + 1
    /\ UNCHANGED <<pc, args, player_games, player_ids, updated_players, threads,
                   total_loss, ret, outputs, calls, players0>>

\* the end of the loop over the ratings file, at the end of the file or at
\* the first line that does not parse, and the reading of the games file
C_read_games ==
    /\ UNCHANGED scraper
    /\ pc = "load"
    /\ IF next_i > Len(args.ratings_file.rows) THEN TRUE
       ELSE args.ratings_file.rows[next_i].bad # 0
    /\ IF ~args.games_file.open
       THEN /\ pc' = "exit"
            /\ ret' = Returned(One)
            /\ UNCHANGED <<players, players0, updated_players>>
       ELSE /\ players' = CReadGames(players, args.games_file.records, 1)
            /\ IF args.games_file.bad
               THEN /\ pc' = "exit"
                    /\ ret' = Returned(One)
                    /\ UNCHANGED <<players0, updated_players>>
               ELSE /\ pc' = "update"
                    /\ players0' = players'
                    /\ updated_players' = {}
                    /\ UNCHANGED ret
    /\ UNCHANGED <<args, player_games, player_ids, threads, next_i,
                   total_loss, outputs, calls>>

\* one pass of the loop over the table in main: glicko2_update on the next
\* Player of the traversal, updated_players being the ones already passed
C_update(id) ==
    /\ UNCHANGED scraper
    /\ pc = "update"
    /\ id \in DOMAIN players
    /\ id \notin updated_players
    /\ \E r \in {glicko2_update(players[id], players, args.log_ok)} :
            /\ r.ok
            /\ players' = [players EXCEPT ![id] = r.result.target]
            /\ outputs' = outputs \o [n \in 1..r.result.logged |->
                                          [file |-> "extreme_cases.log", id |-> id]]
    /\ updated_players' = updated_players \cup {id}
    /\ UNCHANGED <<pc, args, player_games, player_ids, threads, next_i,
                   total_loss, ret, calls, players0>>

C_apply_new_ratings(garbage) ==
    /\ UNCHANGED scraper
    /\ pc = "update"
    /\ updated_players = DOMAIN players
    /\ players' = apply_new_ratings(players, garbage)
    /\ pc' = "write"
    /\ UNCHANGED <<args, player_games, player_ids, updated_players, threads,
                   next_i, total_loss, ret, outputs, calls, players0>>

\* write_to_file and the return of main
C_write_to_file ==
    /\ UNCHANGED scraper
    /\ pc = "write"
    /\ outputs' = IF args.out_ok
                  THEN Append(outputs, [file |-> "output", lines |-> COutput(players)])
                  ELSE outputs
    /\ pc' = "exit"
    /\ ret' = Returned(Zero)
    /\ UNCHANGED <<players, args, player_games, player_ids, updated_players,
                   threads, next_i, total_loss, calls, players0>>

CNext ==
    \/ \E run \in CRuns : C_main(run)
    \/ C_load_line
    \/ C_read_games
    \/ \E id \in Ids : C_update(id)
    \/ \E garbage \in UninitValues : C_apply_new_ratings(garbage)
    \/ C_write_to_file

SpecC == GlickoInit /\ [][CNext]_vars


(***************************************************************************)
(* The hash table on its own, as the Players it holds in the order they    *)
(* were inserted: insert appends to the end of the chain of the id's       *)
(* bucket and retrieve returns the first Player of the chain with the id,  *)
(* so that the Players of one id are found in insertion order.  The table  *)
(* holds at most MaxId Players and add_game is called at most MaxRows      *)
(* times.                                                                  *)
(***************************************************************************)
\* retrieve: the position of the Player it returns, 0 for NULL
CTableRetrieve(table, id) ==
    IF \E n \in 1..Len(table) : table[n].id = id
    THEN CHOOSE n \in 1..Len(table) :
            /\ table[n].id = id
            /\ \A k \in 1..(n - 1) : table[k].id # id
    ELSE 0

\* insert(player), as one pass of the loop over the ratings file makes it:
\* there is no test for a Player of the same id
CTable_insert(player) ==
    /\ UNCHANGED scraper
    /\ pc = "new"
    /\ Len(players) < MaxId
    /\ players' = Append(players,
                         [id |-> player.id, rating |-> player.rating, rd |-> player.rd,
                          volatility |-> player.volatility, new_rating |-> Uninit,
                          new_rd |-> Uninit, games |-> <<>>])
    /\ UNCHANGED <<pc, args, player_games, player_ids, updated_players, threads,
                   next_i, total_loss, ret, outputs, calls, players0>>

\* add_game(id, game): the game goes to the Player retrieve returns, a
\* default Player being inserted first when it returns NULL
CTable_add_game(id, game) ==
    /\ UNCHANGED scraper
    /\ pc = "new"
    /\ calls < MaxRows
    /\ calls' = calls + 1
    /\ IF CTableRetrieve(players, id) # 0
       THEN players' = [players EXCEPT ![CTableRetrieve(players, id)].games =
                                           Append(@, game)]
       ELSE /\ Len(players) < MaxId
            /\ players' = Append(players,
                                 [id |-> id, rating |-> FromInt(1500),
                                  rd |-> FromInt(350), volatility |-> Dec(6, 2),
                                  new_rating |-> Uninit, new_rd |-> Uninit,
                                  games |-> <<game>>])
    /\ UNCHANGED <<pc, args, player_games, player_ids, updated_players, threads,
                   next_i, total_loss, ret, outputs, players0>>

CTableNext ==
    \/ \E id \in Ids : CTable_insert(CRatingLine(id))
    \/ \E id \in Ids, opponent \in Ids : CTable_add_game(id, <<opponent, One>>)

SpecCTable == GlickoInit /\ [][CTableNext]_vars

(***************************************************************************)
(* Claims on the C program                                                 *)
(***************************************************************************)
\* C6: default-opponent handling: when a game of a player names an opponent
\* that is not in the registry, the game still contributes to the player's
\* update, the opponent counting with the default rating 1500 and the default
\* deviation, and the lookup does not insert the opponent into the registry.
C6_AbsentOpponentCountsAsDefault ==
    pc = "update" =>
        /\ DOMAIN players = DOMAIN players0
        /\ \A id \in updated_players :
            \E r \in {glicko2_update(players0[id],
                                     [o \in Ids |-> IF o \in DOMAIN players0 THEN players0[o]
                                                    ELSE [rating |-> BASE_RATING,
                                                          rd |-> BASE_RD]],
                                     args.log_ok)} :
                /\ players[id].new_rating = r.result.target.new_rating
                /\ players[id].new_rd = r.result.target.new_rd

\* C9: load is complete or fails: the update of the C program runs only on a
\* registry in which every line of the ratings file was ingested; a file
\* with a line that does not parse never leaves a truncated registry that the
\* update runs on.
C9_LoadCompleteOrFails ==
    pc = "update" =>
        \A n \in 1..Len(args.ratings_file.rows) :
            /\ args.ratings_file.rows[n].bad = 0
            /\ args.ratings_file.rows[n].id \in DOMAIN players0
            /\ players0[args.ratings_file.rows[n].id].rating
                   = args.ratings_file.rows[n].rating

\* C14: audit logging never aborts an update: when a computed volatility or
\* deviation is out of the expected range, glicko2_update assigns new_rating,
\* new_rd and volatility all the same, as it does when extreme_cases.log can
\* be opened, whether or not the log file could be opened.
C14_LogFailureDoesNotAbort ==
    pc = "update" =>
        \A id \in updated_players :
            \E r \in {glicko2_update(players0[id], players0, TRUE)} :
                players[id] = r.result.target

\* C20: per-player state machine: for a player with no game entries in the
\* period the update pass runs no aggregation and no volatility solver: the
\* root-finding loop makes no pass for a player whose game count is 0.
C20_NoSolverWithoutGames ==
    [][\A id \in Ids :
          (/\ pc = "update"
           /\ id \in DOMAIN players
           /\ id \notin updated_players
           /\ id \in updated_players'
           /\ Len(players[id].games) = 0)
          => \E r \in {glicko2_update(players[id], players, args.log_ok)} :
                r.passes = 0]_vars

\* C16: unique identity: after any sequence of insert and add_game
\* operations the hash table holds at most one Player per id, the one
\* retrieve returns.
C16_OnePlayerPerId ==
    \A i \in 1..Len(players), j \in 1..Len(players) :
        players[i].id = players[j].id => i = j

(***************************************************************************)
(* The volatility solver, statement by statement: Glicko2::get_new_        *)
(* volatility of the class Glicko2 and the solver part of glicko2_update   *)
(* of the C program (from "double a = ..." to the end of the root-finding  *)
(* loop).  args holds the routine followed and its inputs, pc the position *)
(* in it, threads its local variables and ret the value it ends on.  k     *)
(* counts the passes of the bracket search and n those of the root-finding *)
(* loop; a loop is followed for at most MaxSolverSteps passes.             *)
(***************************************************************************)
\* inputs on the internal scale: deviations and estimated variances around
\* the ones of rated players, improvements delta below and above
\* sqrt(deviation^2 + v) and above sqrt(deviation^2 + v + 1)
SolverInputs ==
    { [deviation |-> phi, volatility |-> Dec(6, 2), v |-> v, delta |-> delta] :
        phi \in {Dec(2, 1), Dec(11513, 4)},
        v \in {Dec(5, 1), Dec(17785, 4)},
        delta \in {Dec(-4834, 4), One, Two} }

\* what glicko2_update computes for a player without games that count:
\* v = 1.0 / 0.0 and delta = v * 0.0
SolverNoGames ==
    [deviation |-> Dec(11513, 4), volatility |-> Dec(6, 2), v |-> PInf, delta |-> NaN]

SolverLocals ==
    [a |-> Zero, A |-> Zero, B |-> Zero, f_A |-> Zero, f_B |-> Zero, k |-> 0, n |-> 0]

SolverInit ==
    /\ pc = "enter"
    /\ args \in { [routine |-> "get_new_volatility", in |-> i] : i \in SolverInputs }
           \cup { [routine |-> "glicko2_update", in |-> i] :
                      i \in SolverInputs \cup {SolverNoGames} }
    /\ threads = SolverLocals
    /\ ret = NoRet
    /\ players = Empty
    /\ player_games = Empty
    /\ player_ids = <<>>
    /\ updated_players = <<>>
    /\ next_i = 0
    /\ total_loss = Zero
    /\ outputs = <<>>
    /\ calls = 0
    /\ players0 = Empty
    /\ scraper = <<>>

\* "double A = 2 * std::log(volatility); double B = std::log(...);
\*  if (B <= 0.0) { int k = 1;"
Glicko2Solver_enter ==
    /\ UNCHANGED scraper
    /\ pc = "enter"
    /\ args.routine = "get_new_volatility"
    /\ \E A \in {FMul(Two, FLog(args.in.volatility))},
          B \in {FLog(FSub(FSub(FMul(args.in.delta, args.in.delta),
                                FMul(args.in.deviation, args.in.deviation)),
                           args.in.v))} :
        /\ threads' = [threads EXCEPT !.a = A, !.A = A, !.B = B,
                                      !.k = IF FLe(B, Zero) THEN 1 ELSE 0]
        /\ pc' = IF FLe(B, Zero) THEN "search" ELSE "bracketed"
    /\ UNCHANGED <<players, args, player_games, player_ids, updated_players,
                   next_i, total_loss, ret, outputs, calls, players0>>

\* one test of "while (f(A - k * tau, A, deviation, v, delta) < 0.0)":
\* "++k" when it holds, "B = A - k * tau" when it does not
Glicko2Solver_search ==
    /\ UNCHANGED scraper
    /\ pc = "search"
    /\ args.routine = "get_new_volatility"
    /\ IF FLt(Glicko2_f(FSub(threads.A, FMul(FromInt(threads.k), tau)), threads.A,
                        args.in.deviation, args.in.v, args.in.delta), Zero)
       THEN /\ threads.k < MaxSolverSteps
            /\ threads' = [threads EXCEPT !.k = @ + 1]
            /\ pc' = "search"
       ELSE /\ threads' = [threads EXCEPT
                              !.B = FSub(threads.A, FMul(FromInt(threads.k), tau))]
            /\ pc' = "bracketed"
    /\ UNCHANGED <<players, args, player_games, player_ids, updated_players,
                   next_i, total_loss, ret, outputs, calls, players0>>

\* "double f_A = f(A, A, ...); double f_B = f(B, A, ...);"
Glicko2Solver_values ==
    /\ UNCHANGED scraper
    /\ pc = "bracketed"
    /\ args.routine = "get_new_volatility"
    /\ threads' = [threads EXCEPT
                      !.f_A = Glicko2_f(threads.A, threads.A, args.in.deviation,
                                        args.in.v, args.in.delta),
                      !.f_B = Glicko2_f(threads.B, threads.A, args.in.deviation,
                                        args.in.v, args.in.delta)]
    /\ pc' = "loop"
    /\ UNCHANGED <<players, args, player_games, player_ids, updated_players,
                   next_i, total_loss, ret, outputs, calls, players0>>

\* one pass of "while (std::abs(B - A) > epsilon) { ... }": f is called with
\* the A of the moment as its a
Glicko2Solver_step ==
    /\ UNCHANGED scraper
    /\ pc = "loop"
    /\ args.routine = "get_new_volatility"
    /\ FGt(FAbs(FSub(threads.B, threads.A)), epsilon)
    /\ threads.n < MaxSolverSteps
    /\ \E C \in {FAdd(threads.A, FDiv(FMul(FSub(threads.A, threads.B), threads.f_A),
                                      FSub(threads.f_B, threads.f_A)))} :
        \E f_C \in {Glicko2_f(C, threads.A, args.in.deviation, args.in.v,
                              args.in.delta)} :
            threads' = IF FLt(f_C, Zero)
                       THEN [threads EXCEPT !.B = C, !.f_B = f_C, !.n = @ + 1]
                       ELSE [threads EXCEPT !.A = C, !.f_A = f_C, !.n = @ + 1]
    /\ UNCHANGED <<players, pc, args, player_games, player_ids, updated_players,
                   next_i, total_loss, ret, outputs, calls, players0>>

\* the exit of the loop and "return std::exp(A/2);"
Glicko2Solver_return ==
    /\ UNCHANGED scraper
    /\ pc = "loop"
    /\ args.routine = "get_new_volatility"
    /\ ~FGt(FAbs(FSub(threads.B, threads.A)), epsilon)
    /\ ret' = Returned(FExp(FDiv(threads.A, Two)))
    /\ pc' = "returned"
    /\ UNCHANGED <<players, args, player_games, player_ids, updated_players,
                   threads, next_i, total_loss, outputs, calls, players0>>

\* "double a = log(pow(target->volatility, 2.0)); double A = a; double B;
\*  if (pow(delta, 2.0) > pow(phi, 2.0) + v) { B = log(...); }
\*  else { int k = 1;"
CSolver_enter ==
    /\ UNCHANGED scraper
    /\ pc = "enter"
    /\ args.routine = "glicko2_update"
    /\ \E a \in {FLog(FPow2(args.in.volatility))} :
        IF FGt(FPow2(args.in.delta), FAdd(FPow2(args.in.deviation), args.in.v))
        THEN /\ threads' = [threads EXCEPT
                               !.a = a, !.A = a,
                               !.B = FLog(FSub(FSub(FPow2(args.in.delta),
                                                    FPow2(args.in.deviation)),
                                               args.in.v))]
             /\ pc' = "bracketed"
        ELSE /\ threads' = [threads EXCEPT !.a = a, !.A = a, !.k = 1]
             /\ pc' = "search"
    /\ UNCHANGED <<players, args, player_games, player_ids, updated_players,
                   next_i, total_loss, ret, outputs, calls, players0>>

\* the search of the C program leaving its loop one pass late
CSolver_search_late ==
    /\ UNCHANGED scraper
    /\ pc = "search"
    /\ args.routine = "glicko2_update"
    /\ threads' = [threads EXCEPT
                      !.k = @ + 1,
                      !.B = FSub(threads.a, FMul(FromInt(threads.k + 1), TAU))]
    /\ pc' = "bracketed"
    /\ UNCHANGED <<players, args, player_games, player_ids, updated_players,
                   next_i, total_loss, ret, outputs, calls, players0>>

\* one test of "while (f(a - k * TAU, delta, v, A) < 0)": "k++" when it
\* holds, "B = a - k * TAU" when it does not
CSolver_search ==
    /\ UNCHANGED scraper
    /\ pc = "search"
    /\ args.routine = "glicko2_update"
    /\ IF FLt(C_f(FSub(threads.a, FMul(FromInt(threads.k), TAU)), args.in.delta,
                  args.in.v, threads.A), Zero)
       THEN /\ threads.k < MaxSolverSteps
            /\ threads' = [threads EXCEPT !.k = @ + 1]
            /\ pc' = "search"
       ELSE /\ threads' = [threads EXCEPT
                              !.B = FSub(threads.a, FMul(FromInt(threads.k), TAU))]
            /\ pc' = "bracketed"
    /\ UNCHANGED <<players, args, player_games, player_ids, updated_players,
                   next_i, total_loss, ret, outputs, calls, players0>>

\* "double epsilon = 0.000001; double fa = f(A, delta, v, A);
\*  double fb = f(B, delta, v, A);"
CSolver_values ==
    /\ UNCHANGED scraper
    /\ pc = "bracketed"
    /\ args.routine = "glicko2_update"
    /\ threads' = [threads EXCEPT
                      !.f_A = C_f(threads.A, args.in.delta, args.in.v, threads.A),
                      !.f_B = C_f(threads.B, args.in.delta, args.in.v, threads.A)]
    /\ pc' = "loop"
    /\ UNCHANGED <<players, args, player_games, player_ids, updated_players,
                   next_i, total_loss, ret, outputs, calls, players0>>

\* one pass of "while (fabs(B - A) > epsilon) { ... }"
CSolver_step ==
    /\ UNCHANGED scraper
    /\ pc = "loop"
    /\ args.routine = "glicko2_update"
    /\ FGt(FAbs(FSub(threads.B, threads.A)), Dec(1, 6))
    /\ threads.n < MaxSolverSteps
    /\ \E C \in {FAdd(threads.A, FDiv(FMul(FSub(threads.A, threads.B), threads.f_A),
                                      FSub(threads.f_B, threads.f_A)))} :
        \E fc \in {C_f(C, args.in.delta, args.in.v, threads.A)} :
            threads' = IF FLt(FMul(fc, threads.f_B), Zero)
                       THEN [threads EXCEPT !.A = threads.B, !.f_A = threads.f_B,
                                            !.B = C, !.f_B = fc, !.n = @ + 1]
                       ELSE [threads EXCEPT !.f_A = FDiv(@, Two),
                                            !.B = C, !.f_B = fc, !.n = @ + 1]
    /\ UNCHANGED <<players, pc, args, player_games, player_ids, updated_players,
                   next_i, total_loss, ret, outputs, calls, players0>>

\* the exit of the loop and "double new_volatility = exp(A / 2.0);"
CSolver_return ==
    /\ UNCHANGED scraper
    /\ pc = "loop"
    /\ args.routine = "glicko2_update"
    /\ ~FGt(FAbs(FSub(threads.B, threads.A)), Dec(1, 6))
    /\ ret' = Returned(FExp(FDiv(threads.A, Two)))
    /\ pc' = "returned"
    /\ UNCHANGED <<players, args, player_games, player_ids, updated_players,
                   threads, next_i, total_loss, outputs, calls, players0>>

SolverNext ==
    \/ Glicko2Solver_enter
    \/ Glicko2Solver_search
    \/ Glicko2Solver_values
    \/ Glicko2Solver_step
    \/ Glicko2Solver_return
    \/ CSolver_enter
    \/ CSolver_search
    \/ CSolver_values
    \/ CSolver_step
    \/ CSolver_return

SpecSolver == SolverInit /\ [][SolverNext]_vars

(***************************************************************************)
(* Claims on the volatility solver                                         *)
(***************************************************************************)
\* f at x as the routine followed calls it before the root-finding loop,
\* with a the value A starts from
SolverF(x) ==
    IF args.routine = "get_new_volatility"
    THEN Glicko2_f(x, threads.a, args.in.deviation, args.in.v, args.in.delta)
    ELSE C_f(x, args.in.delta, args.in.v, threads.a)

\* a - k * tau with the tau of the routine followed
SolverBracket(k) ==
    FSub(threads.a, FMul(FromInt(k), IF args.routine = "get_new_volatility" THEN tau
                                     ELSE TAU))

\* delta^2 > phi^2 + v
SolverAbove ==
    FGt(FMul(args.in.delta, args.in.delta),
        FAdd(FMul(args.in.deviation, args.in.deviation), args.in.v))

\* C21: initial bracket, branch choice: the solver sets
\* B = ln(delta^2 - phi^2 - v) exactly when delta^2 > phi^2 + v and uses the
\* bracket search B = a - k*tau in every other case, and B is a finite number
\* when the root-finding loop starts.
C21_BranchChoice ==
    /\ pc = "search" => ~SolverAbove
    /\ pc = "bracketed" =>
        /\ threads.B.k = "num"
        /\ IF SolverAbove
           THEN /\ threads.k = 0
                /\ threads.B = FLog(FSub(FSub(FMul(args.in.delta, args.in.delta),
                                              FMul(args.in.deviation,
                                                   args.in.deviation)),
                                         args.in.v))
           ELSE /\ threads.k >= 1
                /\ threads.B = SolverBracket(threads.k)

\* C21 for the C program alone
C21_BranchChoiceInC == args.routine = "glicko2_update" => C21_BranchChoice

\* C22: initial bracket, search result, as the claim words it: when the
\* bracket search is used, the solver ends it with B = a - k*tau where k is
\* the smallest positive integer such that f(a - k*tau) < 0.
C22_SearchEndsBelowZero ==
    (pc = "bracketed" /\ threads.k >= 1) =>
        /\ threads.B = SolverBracket(threads.k)
        /\ FLt(SolverF(threads.B), Zero)
        /\ \A j \in 1..(threads.k - 1) : ~FLt(SolverF(SolverBracket(j)), Zero)

\* C22, as the code has it: when the bracket search is used, the solver ends
\* it with B = a - k*tau where k is the smallest positive integer such that
\* f(a - k*tau) < 0 does not hold.
C22_SearchEndsAtFirstNotBelowZero ==
    (pc = "bracketed" /\ threads.k >= 1) =>
        /\ threads.B = SolverBracket(threads.k)
        /\ ~FLt(SolverF(threads.B), Zero)
        /\ \A j \in 1..(threads.k - 1) : FLt(SolverF(SolverBracket(j)), Zero)

W22_SearchUsed ==
    /\ pc = "bracketed"
    /\ args.routine = "glicko2_update"
    /\ threads.k >= 1
    /\ threads.B = SolverBracket(threads.k)
    /\ threads.B.k = "num"

\* f(C) and f(B) have opposite sign
OppositeSign(f_C, f_B) ==
    \/ FLt(f_C, Zero) /\ FGt(f_B, Zero)
    \/ FGt(f_C, Zero) /\ FLt(f_B, Zero)

\* the secant point of (A, f(A)) and (B, f(B))
SolverSecant ==
    FAdd(threads.A, FDiv(FMul(FSub(threads.A, threads.B), threads.f_A),
                         FSub(threads.f_B, threads.f_A)))

\* C23: Illinois step: in every iteration of the root-finding loop, with C the
\* secant point of (A, f(A)) and (B, f(B)): if f(C) and f(B) have opposite
\* sign then A and f(A) take B's values, otherwise the retained value f(A) is
\* halved; in both cases B and f(B) then take C's values.
C23_IllinoisStep ==
    [][(pc = "loop" /\ pc' = "loop") =>
          /\ threads'.B = SolverSecant
          /\ IF OppositeSign(threads'.f_B, threads.f_B)
             THEN /\ threads'.A = threads.B
                  /\ threads'.f_A = threads.f_B
             ELSE /\ threads'.A = threads.A
                  /\ threads'.f_A = FDiv(threads.f_A, Two)]_vars

\* C23 for the C program alone
C23_IllinoisStepInC ==
    [][(pc = "loop" /\ pc' = "loop" /\ args.routine = "glicko2_update") =>
          /\ threads'.B = SolverSecant
          /\ IF OppositeSign(threads'.f_B, threads.f_B)
             THEN /\ threads'.A = threads.B
                  /\ threads'.f_A = threads.f_B
             ELSE /\ threads'.A = threads.A
                  /\ threads'.f_A = FDiv(threads.f_A, Two)]_vars

\* C24: the volatility solver is a bounded iteration: the bracket-search loop
\* and the root-finding loop end after finitely many passes - no pass leaves
\* A, B, f(A) and f(B) as it found them, since such a pass is repeated for
\* ever, and no loop is still running after MaxSolverSteps passes of the
\* search - and the root-finding loop ends with |B - A| <= epsilon.
C24_SolverTerminates ==
    [][/\ (pc = "loop" /\ pc' = "loop") =>
              <<threads'.A, threads'.B, threads'.f_A, threads'.f_B>>
                  # <<threads.A, threads.B, threads.f_A, threads.f_B>>
       /\ (pc = "search" /\ pc' = "search") => threads'.k < MaxSolverSteps
       /\ pc' = "returned" => FLe(FAbs(FSub(threads.B, threads.A)), epsilon)]_vars

\* C24, the passes alone: no pass of the root-finding loop leaves A, B, f(A)
\* and f(B) as it found them
C24_EveryPassMoves ==
    [][(pc = "loop" /\ pc' = "loop") =>
           <<threads'.A, threads'.B, threads'.f_A, threads'.f_B>>
               # <<threads.A, threads.B, threads.f_A, threads.f_B>>]_vars

(***************************************************************************)
(* The Go scraper: GetPlayersInfo.  args holds the handler input, pc the   *)
(* position in GetPlayersInfo, scraper its locals i, content and err with  *)
(* the outcomes of the calls of downloadAndExtract made so far (calls, a   *)
(* history), and ret what GetPlayersInfo returns.  The content a           *)
(* successful call number n returns is written n (the server may serve a   *)
(* different file each time), 0 is the empty string.                       *)
(***************************************************************************)
MaxInputRetries == 4

\* what one call of downloadAndExtract comes to: the file's text, the error
\* of get, or one of the errors of the extraction
DownloadOutcomes == {"ok", "download", "extract"}

PlayersInfoInit ==
    /\ pc = "GetPlayersInfo"
    /\ args \in {[MaxRetries |-> m] : m \in 1..MaxInputRetries}
    /\ scraper = [i |-> 0, content |-> 0, err |-> "", calls |-> <<>>]
    /\ ret = NoRet
    /\ players = Empty
    /\ player_games = Empty
    /\ player_ids = <<>>
    /\ updated_players = <<>>
    /\ threads = <<>>
    /\ next_i = 0
    /\ total_loss = Zero
    /\ outputs = <<>>
    /\ calls = 0
    /\ players0 = Empty

\* one pass of "for i := 0; i < maxRetries; i++": content and err are
\* assigned from downloadAndExtract, and the pass ends ("continue" on an
\* error, the end of the body otherwise)
GetPlayersInfo_attempt(outcome) ==
    /\ pc = "GetPlayersInfo"
    /\ scraper.i < args.MaxRetries
    /\ scraper' = [i |-> scraper.i + 1,
                   content |-> IF outcome = "ok" THEN scraper.i + 1 ELSE 0,
                   err |-> IF outcome = "ok" THEN "" ELSE outcome,
                   calls |-> Append(scraper.calls, outcome)]
    /\ UNCHANGED <<players, pc, args, player_games, player_ids, updated_players,
                   threads, next_i, total_loss, ret, outputs, calls, players0>>

\* the end of the loop: "if err != nil { return nil, fmt.Errorf(...) }", and
\* the players processFile makes of content otherwise
GetPlayersInfo_return ==
    /\ pc = "GetPlayersInfo"
    /\ ~(scraper.i < args.MaxRetries)
    /\ pc' = "returned"
    /\ ret' = IF scraper.err # ""
              THEN [status |-> "error",
                    what |-> "failed to download or extract file",
                    value |-> 0]
              ELSE [status |-> "returned", what |-> "", value |-> scraper.content]
    /\ UNCHANGED <<players, args, player_games, player_ids, updated_players,
                   threads, next_i, total_loss, outputs, calls, players0, scraper>>

PlayersInfoNext ==
    \/ \E outcome \in DownloadOutcomes : GetPlayersInfo_attempt(outcome)
    \/ GetPlayersInfo_return

SpecPlayersInfo == PlayersInfoInit /\ [][PlayersInfoNext]_vars

\* the calls of downloadAndExtract that succeeded
Successes == {n \in 1..Len(scraper.calls) : scraper.calls[n] = "ok"}

\* C28: GetPlayersInfo retry: GetPlayersInfo calls downloadAndExtract until
\* the first success and at most MaxRetries times, keeps the content of the
\* successful attempt, and returns the "failed to download or extract file"
\* error only if all MaxRetries attempts failed.
C28_RetryUntilFirstSuccess ==
    /\ Len(scraper.calls) <= args.MaxRetries
    /\ \A n \in Successes : n = Len(scraper.calls)
    /\ pc = "returned" =>
        IF Successes = {}
        THEN /\ Len(scraper.calls) = args.MaxRetries
             /\ ret.status = "error"
        ELSE /\ ret.status = "returned"
             /\ ret.value \in Successes

(***************************************************************************)
(* The Go scraper: handler from "getTournamentDetails(allTournaments,      *)
(* &input)" on, with getTournamentDetails, processBatch and the goroutines *)
(* they start.  args holds the handler input, pc the position of the       *)
(* handler's goroutine, threads the goroutines started and not finished,   *)
(* outputs the files saved to S3, and scraper the shared objects: the work  *)
(* lists, the WaitGroup counter scrapeWg, the number of slots taken in     *)
(* semaphore, the buffer of failedChan and the results slice.  A goroutine *)
(* is [fn, t, st, err, closed, saved]: the function it calls, the          *)
(* tournament t of its closure, its position, the error the function       *)
(* returned, whether the failedChan of its closure was closed and whether  *)
(* the results slice of its closure was saved since it started.  A         *)
(* tournament is [id, RetryCount].  requeued (a history) counts per        *)
(* tournament the times a loop put it back on its work list, up to         *)
(* MaxRequeued, and late (a history) holds the tournaments whose results   *)
(* were appended to a slice already saved.                                 *)
(***************************************************************************)
MaxTournaments == 2
MaxInputScrapes == 2
MaxHandlerRetries == 2
MaxRequeued == MaxHandlerRetries + 1

\* "failedChan := make(chan TournamentData, 100)"
FailedChanSize == 100

Min(a, b) == IF a < b THEN a ELSE b

RECURSIVE SelectRetries(_, _)
\* "for failedTournament := range failedChan { if failedTournament.RetryCount
\*  < input.MaxRetries { ... = append(..., failedTournament) } }"
SelectRetries(buffer, max_retries) ==
    IF buffer = <<>> THEN <<>>
    ELSE IF Head(buffer).RetryCount < max_retries
         THEN <<Head(buffer)>> \o SelectRetries(Tail(buffer), max_retries)
         ELSE SelectRetries(Tail(buffer), max_retries)

\* the history requeued after the tournaments of list went back on a work list
Requeue(requeued, list) ==
    [id \in DOMAIN requeued |->
        IF \E n \in 1..Len(list) : list[n].id = id
        THEN Min(requeued[id] + 1, MaxRequeued)
        ELSE requeued[id]]

\* the goroutines once the handler's goroutine closed failedChan / saved the
\* results
MarkClosed(gs) == {[g EXCEPT !.closed = TRUE] : g \in gs}
MarkSaved(gs) == {[g EXCEPT !.saved = TRUE] : g \in gs}

Goroutine(fn, t) ==
    [fn |-> fn, t |-> t, st |-> "started", err |-> FALSE, closed |-> FALSE,
     saved |-> FALSE]

HandlerInit ==
    /\ pc = "getTournamentDetails"
    /\ args \in [MaxConcurrentScrapes : 1..MaxInputScrapes,
                 MaxRetries : 1..MaxHandlerRetries,
                 BatchSize : 1..MaxTournaments]
    /\ \E n \in 1..MaxTournaments :
        scraper = [allTournaments |-> [k \in 1..n |-> [id |-> k, RetryCount |-> 0]],
                   tournaments |-> [k \in 1..n |-> [id |-> k, RetryCount |-> 0]],
                   todo |-> <<>>,
                   scrapeWg |-> 0,
                   semaphore |-> 0,
                   failedChan |-> <<>>,
                   results |-> {},
                   failed |-> <<>>,
                   requeued |-> [k \in 1..n |-> 0],
                   late |-> {}]
    /\ threads = {}
    /\ ret = NoRet
    /\ outputs = {}
    /\ players = Empty
    /\ player_games = Empty
    /\ player_ids = <<>>
    /\ updated_players = <<>>
    /\ next_i = 0
    /\ total_loss = Zero
    /\ calls = 0
    /\ players0 = Empty

\* getTournamentDetails, "for len(tournaments) > 0 {": a new failedChan is
\* made and the loop over tournaments begins
Details_round ==
    /\ pc = "getTournamentDetails"
    /\ scraper.tournaments # <<>>
    /\ scraper' = [scraper EXCEPT !.failedChan = <<>>, !.todo = scraper.tournaments]
    /\ pc' = "details_spawn"
    /\ UNCHANGED <<players, args, player_games, player_ids, updated_players,
                   threads, next_i, total_loss, ret, outputs, calls, players0>>

\* processTournament(tournament): "scrapeWg.Add(1); go func(t) {...}(t)"
Details_spawn ==
    /\ pc = "details_spawn"
    /\ scraper.todo # <<>>
    /\ scraper' = [scraper EXCEPT !.todo = Tail(@), !.scrapeWg = @ + 1]
    /\ threads' = threads \cup {Goroutine("scrapeTournamentDetails", Head(scraper.todo))}
    /\ UNCHANGED <<players, pc, args, player_games, player_ids, updated_players,
                   next_i, total_loss, ret, outputs, calls, players0>>

\* "scrapeWg.Wait()" returns
Details_wait ==
    /\ pc = "details_spawn"
    /\ scraper.todo = <<>>
    /\ scraper.scrapeWg = 0
    /\ pc' = "details_close"
    /\ UNCHANGED <<players, args, player_games, player_ids, updated_players,
                   threads, next_i, total_loss, ret, outputs, calls, players0,
                   scraper>>

\* "close(failedChan)"
Details_close ==
    /\ pc = "details_close"
    /\ threads' = MarkClosed(threads)
    /\ pc' = "details_drain"
    /\ UNCHANGED <<players, args, player_games, player_ids, updated_players,
                   next_i, total_loss, ret, outputs, calls, players0, scraper>>

\* "tournaments = []TournamentData{}; for failedTournament := range
\*  failedChan { ... }" and the end of the pass of the outer loop
Details_drain ==
    /\ pc = "details_drain"
    /\ \E again \in {SelectRetries(scraper.failedChan, args.MaxRetries)} :
        scraper' = [scraper EXCEPT !.tournaments = again,
                                   !.failedChan = <<>>,
                                   !.requeued = Requeue(@, again)]
    /\ pc' = "getTournamentDetails"
    /\ UNCHANGED <<players, args, player_games, player_ids, updated_players,
                   threads, next_i, total_loss, ret, outputs, calls, players0>>

\* the end of the outer loop, saveTournamentDetailsToS3(results, input) and
\* the return to handler, which goes on to "batchId := 0" with the
\* allTournaments it had
Details_save ==
    /\ pc = "getTournamentDetails"
    /\ scraper.tournaments = <<>>
    /\ outputs' = outputs \cup {[file |-> "details", of |-> scraper.results]}
    /\ threads' = MarkSaved(threads)
    /\ scraper' = [scraper EXCEPT
                      !.results = {},
                      !.requeued = [id \in DOMAIN scraper.requeued |-> 0]]
    /\ pc' = "handler"
    /\ UNCHANGED <<players, args, player_games, player_ids, updated_players,
                   next_i, total_loss, ret, calls, players0>>

\* scrapeTournamentDetails, "semaphore <- struct{}{}"
Details_acquire(g) ==
    /\ pc # "panic"
    /\ g.fn = "scrapeTournamentDetails"
    /\ g.st = "started"
    /\ scraper.semaphore < args.MaxConcurrentScrapes
    /\ scraper' = [scraper EXCEPT !.semaphore = @ + 1]
    /\ threads' = (threads \ {g}) \cup {[g EXCEPT !.st = "acquired"]}
    /\ UNCHANGED <<players, pc, args, player_games, player_ids, updated_players,
                   next_i, total_loss, ret, outputs, calls, players0>>

\* scrapeTournamentDetails from get(...) to its return: on an error
\* "tournament.RetryCount++" changes the parameter, a copy of the closure's
\* t that is returned beside the error; the deferred "<-semaphore" and
\* "wg.Done()" run on either return
Details_return(g, failed) ==
    /\ pc # "panic"
    /\ g.fn = "scrapeTournamentDetails"
    /\ g.st = "acquired"
    /\ scraper' = [scraper EXCEPT !.semaphore = @ - 1, !.scrapeWg = @ - 1]
    /\ threads' = (threads \ {g}) \cup {[g EXCEPT !.st = "returned", !.err = failed]}
    /\ UNCHANGED <<players, pc, args, player_games, player_ids, updated_players,
                   next_i, total_loss, ret, outputs, calls, players0>>

\* the rest of the goroutine: "if err != nil { failedChan <- t } else {
\*  mu.Lock(); results = append(results, details); mu.Unlock() }"; a send on
\* a closed channel panics
Details_deliver(g) ==
    /\ pc # "panic"
    /\ g.fn = "scrapeTournamentDetails"
    /\ g.st = "returned"
    /\ threads' = threads \ {g}
    /\ IF g.err
       THEN IF g.closed
            THEN /\ pc' = "panic"
                 /\ UNCHANGED scraper
            ELSE /\ Len(scraper.failedChan) < FailedChanSize
                 /\ scraper' = [scraper EXCEPT !.failedChan = Append(@, g.t)]
                 /\ UNCHANGED pc
       ELSE /\ scraper' = IF g.saved
                          THEN [scraper EXCEPT !.late = @ \cup {g.t.id}]
                          ELSE [scraper EXCEPT !.results = @ \cup {g.t.id}]
            /\ UNCHANGED pc
    /\ UNCHANGED <<players, args, player_games, player_ids, updated_players,
                   next_i, total_loss, ret, outputs, calls, players0>>

\* handler, "for len(allTournaments) > 0 {": the batch is cut off
\* allTournaments and processBatch is entered, where a WaitGroup, a
\* semaphore, the slices and failedChan are made
Handler_batch ==
    /\ pc = "handler"
    /\ scraper.allTournaments # <<>>
    /\ \E size \in {Min(args.BatchSize, Len(scraper.allTournaments))} :
        scraper' = [scraper EXCEPT
                       !.todo = SubSeq(scraper.allTournaments, 1, size),
                       !.allTournaments =
                           SubSeq(scraper.allTournaments, size + 1,
                                  Len(scraper.allTournaments)),
                       !.scrapeWg = 0,
                       !.semaphore = 0,
                       !.failedChan = <<>>,
                       !.results = {},
                       !.failed = <<>>]
    /\ pc' = "batch_spawn"
    /\ UNCHANGED <<players, args, player_games, player_ids, updated_players,
                   threads, next_i, total_loss, ret, outputs, calls, players0>>

\* the end of the loop of handler and "return HandlerOutput{}, nil"
Handler_return ==
    /\ pc = "handler"
    /\ scraper.allTournaments = <<>>
    /\ pc' = "returned"
    /\ ret' = Returned(Zero)
    /\ UNCHANGED <<players, args, player_games, player_ids, updated_players,
                   threads, next_i, total_loss, outputs, calls, players0, scraper>>

\* processTournament(tournament): "scrapeWg.Add(1); go func(t) {...}(t)"
Batch_spawn ==
    /\ pc = "batch_spawn"
    /\ scraper.todo # <<>>
    /\ scraper' = [scraper EXCEPT !.todo = Tail(@), !.scrapeWg = @ + 1]
    /\ threads' = threads \cup {Goroutine("getTournamentGames", Head(scraper.todo))}
    /\ UNCHANGED <<players, pc, args, player_games, player_ids, updated_players,
                   next_i, total_loss, ret, outputs, calls, players0>>

\* "scrapeWg.Wait()" returns
Batch_wait ==
    /\ pc = "batch_spawn"
    /\ scraper.todo = <<>>
    /\ scraper.scrapeWg = 0
    /\ pc' = "batch_close"
    /\ UNCHANGED <<players, args, player_games, player_ids, updated_players,
                   threads, next_i, total_loss, ret, outputs, calls, players0,
                   scraper>>

\* "close(failedChan)"
Batch_close ==
    /\ pc = "batch_close"
    /\ threads' = MarkClosed(threads)
    /\ pc' = "batch_drain"
    /\ UNCHANGED <<players, args, player_games, player_ids, updated_players,
                   next_i, total_loss, ret, outputs, calls, players0, scraper>>

\* "failed_tournaments := []TournamentData{}; for failedTournament := range
\*  failedChan { ... }"
Batch_drain ==
    /\ pc = "batch_drain"
    /\ scraper' = [scraper EXCEPT
                      !.failed = SelectRetries(scraper.failedChan, args.MaxRetries),
                      !.failedChan = <<>>]
    /\ pc' = "batch_save"
    /\ UNCHANGED <<players, args, player_games, player_ids, updated_players,
                   threads, next_i, total_loss, ret, outputs, calls, players0>>

\* saveGamesParquetToS3(games, input, batch_id) and the saves after it,
\* "return failed_tournaments", and in handler "allTournaments =
\* append(allTournaments, failedTournaments...)"
Batch_save ==
    /\ pc = "batch_save"
    /\ outputs' = outputs \cup {[file |-> "games", of |-> scraper.results]}
    /\ threads' = MarkSaved(threads)
    /\ scraper' = [scraper EXCEPT
                      !.allTournaments = @ \o scraper.failed,
                      !.requeued = Requeue(@, scraper.failed)]
    /\ pc' = "handler"
    /\ UNCHANGED <<players, args, player_games, player_ids, updated_players,
                   next_i, total_loss, ret, calls, players0>>

\* getTournamentGames taking a slot whatever the number of slots taken
Games_acquire_unbounded(g) ==
    /\ pc # "panic"
    /\ g.fn = "getTournamentGames"
    /\ g.st = "started"
    /\ scraper' = [scraper EXCEPT !.semaphore = @ + 1]
    /\ threads' = (threads \ {g}) \cup {[g EXCEPT !.st = "acquired"]}
    /\ UNCHANGED <<players, pc, args, player_games, player_ids, updated_players,
                   next_i, total_loss, ret, outputs, calls, players0>>

\* getTournamentGames, "semaphore <- struct{}{}"
Games_acquire(g) ==
    /\ pc # "panic"
    /\ g.fn = "getTournamentGames"
    /\ g.st = "started"
    /\ scraper.semaphore < args.MaxConcurrentScrapes
    /\ scraper' = [scraper EXCEPT !.semaphore = @ + 1]
    /\ threads' = (threads \ {g}) \cup {[g EXCEPT !.st = "acquired"]}
    /\ UNCHANGED <<players, pc, args, player_games, player_ids, updated_players,
                   next_i, total_loss, ret, outputs, calls, players0>>

\* getTournamentGames from scrapeCrosstable(tournament) to its return,
\* with the error of scrapeCrosstable or without; the deferred "<-semaphore"
\* and "wg.Done()" run on either return
Games_return(g, failed) ==
    /\ pc # "panic"
    /\ g.fn = "getTournamentGames"
    /\ g.st = "acquired"
    /\ scraper' = [scraper EXCEPT !.semaphore = @ - 1, !.scrapeWg = @ - 1]
    /\ threads' = (threads \ {g}) \cup {[g EXCEPT !.st = "returned", !.err = failed]}
    /\ UNCHANGED <<players, pc, args, player_games, player_ids, updated_players,
                   next_i, total_loss, ret, outputs, calls, players0>>

\* the rest of the goroutine: "if err != nil { failedChan <- t } else {
\*  mu.Lock(); ... games = append(games, gameData...) ...; mu.Unlock() }"; a
\* send on a closed channel panics
Games_deliver(g) ==
    /\ pc # "panic"
    /\ g.fn = "getTournamentGames"
    /\ g.st = "returned"
    /\ threads' = threads \ {g}
    /\ IF g.err
       THEN IF g.closed
            THEN /\ pc' = "panic"
                 /\ UNCHANGED scraper
            ELSE /\ Len(scraper.failedChan) < FailedChanSize
                 /\ scraper' = [scraper EXCEPT !.failedChan = Append(@, g.t)]
                 /\ UNCHANGED pc
       ELSE /\ scraper' = IF g.saved
                          THEN [scraper EXCEPT !.late = @ \cup {g.t.id}]
                          ELSE [scraper EXCEPT !.results = @ \cup {g.t.id}]
            /\ UNCHANGED pc
    /\ UNCHANGED <<players, args, player_games, player_ids, updated_players,
                   next_i, total_loss, ret, outputs, calls, players0>>

HandlerNext ==
    \/ Details_round
    \/ Details_spawn
    \/ Details_wait
    \/ Details_close
    \/ Details_drain
    \/ Details_save
    \/ \E g \in threads : Details_acquire(g)
    \/ \E g \in threads, failed \in BOOLEAN : Details_return(g, failed)
    \/ \E g \in threads : Details_deliver(g)
    \/ Handler_batch
    \/ Handler_return
    \/ Batch_spawn
    \/ Batch_wait
    \/ Batch_close
    \/ Batch_drain
    \/ Batch_save
    \/ \E g \in threads : Games_acquire(g)
    \/ \E g \in threads, failed \in BOOLEAN : Games_return(g, failed)
    \/ \E g \in threads : Games_deliver(g)

SpecHandler == HandlerInit /\ [][HandlerNext]_vars

(***************************************************************************)
(* Claims on the handler of the scraper                                    *)
(***************************************************************************)
\* C25: scraper handler terminates under persistent failures: a tournament
\* whose fetch fails on every attempt is re-queued at most MaxRetries times,
\* by the retry loop of getTournamentDetails and by the batch loop around
\* processBatch, and is then dropped, so that both loops end.
C25_RequeuedAtMostMaxRetries ==
    \A id \in DOMAIN scraper.requeued : scraper.requeued[id] <= args.MaxRetries

\* C25 for the batch loop around processBatch alone
C25_RequeuedByBatchLoop ==
    pc \in {"handler", "batch_spawn", "batch_close", "batch_drain", "batch_save"} =>
        C25_RequeuedAtMostMaxRetries

\* C26: processBatch barrier: when scrapeWg.Wait() returns in processBatch,
\* every worker goroutine of the batch has finished its work, so that no
\* goroutine sends on failedChan after close(failedChan) and no result is
\* appended after the batch is saved.
C26_BatchBarrier ==
    /\ pc \in {"batch_close", "batch_drain", "batch_save"} =>
         \A g \in threads : g.fn # "getTournamentGames"
    /\ \A g \in threads :
         g.fn = "getTournamentGames" => /\ ~(g.err /\ g.closed)
                                        /\ ~(~g.err /\ g.st = "returned" /\ g.saved)

\* C26, the send alone: no goroutine of processBatch is left to send on a
\* failedChan that was closed
C26_NoSendAfterClose ==
    \A g \in threads : g.fn = "getTournamentGames" => ~(g.err /\ g.closed)

\* C26, the append alone: no goroutine of processBatch is left to append to
\* results that were saved
C26_NoAppendAfterSave ==
    \A g \in threads :
        g.fn = "getTournamentGames" => ~(~g.err /\ g.st = "returned" /\ g.saved)

\* C29: scrape concurrency bound: at every moment at most
\* MaxConcurrentScrapes tournaments are between acquiring and releasing the
\* semaphore in getTournamentGames and in scrapeTournamentDetails, and every
\* acquired slot is released on both the success and the error return: the
\* slots taken are those of the goroutines between the two.
C29_ConcurrencyBound ==
    /\ Cardinality({g \in threads : g.st = "acquired"}) <= args.MaxConcurrentScrapes
    /\ scraper.semaphore = Cardinality({g \in threads : g.st = "acquired"})

W29_SemaphoreFull ==
    /\ scraper.semaphore = args.MaxConcurrentScrapes
    /\ \E g \in threads : g.fn = "getTournamentGames" /\ g.st = "started"
    /\ \E g \in threads : g.fn = "getTournamentGames" /\ g.st = "acquired"

(***************************************************************************)
(* The Go scraper: the standalone program, main from "var scrapeWg         *)
(* sync.WaitGroup" on, with its scrapeTournamentDetails and the goroutine  *)
(* that handles the retries.  pc is the position of main, threads the      *)
(* goroutines that run scrapeTournamentDetails, each [t, st], and scraper  *)
(* the shared objects: the tournaments main has still to start (todo),     *)
(* the counter of scrapeWg, the slots taken in semaphore, the buffer of    *)
(* failedChan and whether it is closed, the results, the goroutine of the  *)
(* retries (retrying: it runs; held: the tournament it received and has    *)
(* not yet passed to processTournament) and attempts (a history): per      *)
(* tournament the calls of scrapeTournamentDetails started, up to          *)
(* StandaloneMaxRetries + 2.  outputs holds the results saved.             *)
(***************************************************************************)
\* "MaxConcurrentScrapes = 10", "MaxRetries = 3" and
\* "failedChan := make(chan TournamentData, 1000)"
StandaloneMaxConcurrentScrapes == 10
StandaloneMaxRetries == 3
StandaloneFailedChanSize == 1000

\* how one call of scrapeTournamentDetails ends: the tournament scraped, a
\* details or crosstable page that fails to download, or an empty crosstable
\* with a report page that fails to download
ScrapeOutcomes == {"ok", "fetch", "report"}

StandaloneInit ==
    /\ pc = "spawn"
    /\ \E n \in 1..MaxTournaments :
        scraper = [todo |-> [k \in 1..n |-> [id |-> k, RetryCount |-> 0]],
                   scrapeWg |-> 0,
                   semaphore |-> 0,
                   failedChan |-> <<>>,
                   closed |-> FALSE,
                   results |-> {},
                   retrying |-> FALSE,
                   held |-> <<>>,
                   attempts |-> [k \in 1..n |-> 0]]
    /\ threads = {}
    /\ args = NoArgs
    /\ ret = NoRet
    /\ outputs = {}
    /\ players = Empty
    /\ player_games = Empty
    /\ player_ids = <<>>
    /\ updated_players = <<>>
    /\ next_i = 0
    /\ total_loss = Zero
    /\ calls = 0
    /\ players0 = Empty

\* processTournament(t): "scrapeWg.Add(1); go func(t) {
\*  scrapeTournamentDetails(t, ...) }(t)"
processTournament(shared, t) ==
    [shared EXCEPT !.scrapeWg = @ + 1,
                   !.attempts[t.id] = Min(@ + 1, StandaloneMaxRetries + 2)]

\* main, one pass of "for _, tournament := range allTournaments"
Standalone_spawn ==
    /\ pc = "spawn"
    /\ scraper.todo # <<>>
    /\ scraper' = [processTournament(scraper, Head(scraper.todo)) EXCEPT
                      !.todo = Tail(scraper.todo)]
    /\ threads' = threads \cup {[t |-> Head(scraper.todo), st |-> "started"]}
    /\ UNCHANGED <<players, pc, args, player_games, player_ids, updated_players,
                   next_i, total_loss, ret, outputs, calls, players0>>

\* main, "go func() { for failedTournament := range failedChan {...} }()"
Standalone_retries ==
    /\ pc = "spawn"
    /\ scraper.todo = <<>>
    /\ scraper' = [scraper EXCEPT !.retrying = TRUE]
    /\ pc' = "wait"
    /\ UNCHANGED <<players, args, player_games, player_ids, updated_players,
                   threads, next_i, total_loss, ret, outputs, calls, players0>>

\* main, "scrapeWg.Wait()" returns
Standalone_wait ==
    /\ pc = "wait"
    /\ scraper.scrapeWg = 0
    /\ pc' = "close"
    /\ UNCHANGED <<players, args, player_games, player_ids, updated_players,
                   threads, next_i, total_loss, ret, outputs, calls, players0,
                   scraper>>

\* main, "close(failedChan)"
Standalone_close ==
    /\ pc = "close"
    /\ scraper' = [scraper EXCEPT !.closed = TRUE]
    /\ pc' = "save"
    /\ UNCHANGED <<players, args, player_games, player_ids, updated_players,
                   threads, next_i, total_loss, ret, outputs, calls, players0>>

\* main, the loop over results and "saveToJSON(results, Year, Month)"
Standalone_save ==
    /\ pc = "save"
    /\ outputs' = {scraper.results}
    /\ pc' = "saved"
    /\ UNCHANGED <<players, args, player_games, player_ids, updated_players,
                   threads, next_i, total_loss, ret, calls, players0, scraper>>

\* the end of main, which ends the program and its goroutines
Standalone_exit ==
    /\ pc = "saved"
    /\ pc' = "exited"
    /\ ret' = Returned(Zero)
    /\ UNCHANGED <<players, args, player_games, player_ids, updated_players,
                   threads, next_i, total_loss, outputs, calls, players0, scraper>>

\* the goroutine of the retries, the receive of "range failedChan": a
\* tournament of the buffer, or the end of the loop when the channel is
\* closed and empty
Retry_receive ==
    /\ pc \notin {"exited", "panic"}
    /\ scraper.retrying
    /\ scraper.held = <<>>
    /\ IF scraper.failedChan # <<>>
       THEN scraper' = [scraper EXCEPT !.held = <<Head(scraper.failedChan)>>,
                                       !.failedChan = Tail(@)]
       ELSE /\ scraper.closed
            /\ scraper' = [scraper EXCEPT !.retrying = FALSE]
    /\ UNCHANGED <<players, pc, args, player_games, player_ids, updated_players,
                   threads, next_i, total_loss, ret, outputs, calls, players0>>

\* the goroutine of the retries, "processTournament(failedTournament)"
Retry_process ==
    /\ pc \notin {"exited", "panic"}
    /\ scraper.held # <<>>
    /\ scraper' = [processTournament(scraper, scraper.held[1]) EXCEPT !.held = <<>>]
    /\ threads' = threads \cup {[t |-> scraper.held[1], st |-> "started"]}
    /\ UNCHANGED <<players, pc, args, player_games, player_ids, updated_players,
                   next_i, total_loss, ret, outputs, calls, players0>>

\* scrapeTournamentDetails, "semaphore <- struct{}{}"
Scrape_acquire(g) ==
    /\ pc \notin {"exited", "panic"}
    /\ g.st = "started"
    /\ scraper.semaphore < StandaloneMaxConcurrentScrapes
    /\ scraper' = [scraper EXCEPT !.semaphore = @ + 1]
    /\ threads' = (threads \ {g}) \cup {[g EXCEPT !.st = "acquired"]}
    /\ UNCHANGED <<players, pc, args, player_games, player_ids, updated_players,
                   next_i, total_loss, ret, outputs, calls, players0>>

\* the tournament scrapeTournamentDetails sends to failedChan: RetryCount + 1
\* after a details or crosstable page failed, a TournamentData without
\* RetryCount after the report page failed
Failed(t, outcome) ==
    [id |-> t.id, RetryCount |-> IF outcome = "fetch" THEN t.RetryCount + 1 ELSE 0]

\* scrapeTournamentDetails from the fetches to its return: the send to
\* failedChan when "tournament.RetryCount < MaxRetries", nothing when not,
\* or the append to results, and then the deferred "<-semaphore" and
\* "wg.Done()"; a send on a closed channel panics
Scrape_finish(g, outcome) ==
    /\ pc \notin {"exited", "panic"}
    /\ g.st = "acquired"
    /\ threads' = threads \ {g}
    /\ IF outcome # "ok" /\ g.t.RetryCount < StandaloneMaxRetries
       THEN IF scraper.closed
            THEN /\ pc' = "panic"
                 /\ UNCHANGED scraper
            ELSE /\ Len(scraper.failedChan) < StandaloneFailedChanSize
                 /\ scraper' = [scraper EXCEPT
                                   !.failedChan = Append(@, Failed(g.t, outcome)),
                                   !.semaphore = @ - 1,
                                   !.scrapeWg = @ - 1]
                 /\ UNCHANGED pc
       ELSE /\ scraper' = [scraper EXCEPT
                              !.results = IF outcome = "ok" THEN @ \cup {g.t.id} ELSE @,
                              !.semaphore = @ - 1,
                              !.scrapeWg = @ - 1]
            /\ UNCHANGED pc
    /\ UNCHANGED <<players, args, player_games, player_ids, updated_players,
                   next_i, total_loss, ret, outputs, calls, players0>>

StandaloneNext ==
    \/ Standalone_spawn
    \/ Standalone_retries
    \/ Standalone_wait
    \/ Standalone_close
    \/ Standalone_save
    \/ Standalone_exit
    \/ Retry_receive
    \/ Retry_process
    \/ \E g \in threads : Scrape_acquire(g)
    \/ \E g \in threads, outcome \in ScrapeOutcomes : Scrape_finish(g, outcome)

SpecStandalone == StandaloneInit /\ [][StandaloneNext]_vars

(***************************************************************************)
(* Claims on the standalone scraper                                        *)
(***************************************************************************)
\* C27: standalone scraper retries are not lost: every tournament that
\* scrapeTournamentDetails sends to failedChan is scraped again before
\* scrapeWg.Wait() returns and the results are saved, no send on failedChan
\* happens after close(failedChan), and each tournament is attempted at most
\* MaxRetries + 1 times in total.
C27_RetriesNotLost ==
    /\ pc \in {"close", "save", "saved", "exited"} =>
         /\ scraper.failedChan = <<>>
         /\ scraper.held = <<>>
         /\ threads = {}
    /\ pc # "panic"
    /\ \A id \in DOMAIN scraper.attempts :
         scraper.attempts[id] <= StandaloneMaxRetries + 1

\* C27, the retries alone: when scrapeWg.Wait() has returned, no tournament
\* sent to failedChan is left in it or with the goroutine of the retries
C27_RetriedBeforeWaitReturns ==
    pc \in {"close", "save", "saved", "exited"} =>
        /\ scraper.failedChan = <<>>
        /\ scraper.held = <<>>

\* C27, the sends alone: no send on failedChan after close(failedChan)
C27_NoSendAfterClose == pc # "panic"

\* C27, the attempts alone: each tournament is attempted at most
\* MaxRetries + 1 times
C27_AttemptsBounded ==
    \A id \in DOMAIN scraper.attempts :
        scraper.attempts[id] <= StandaloneMaxRetries + 1

=============================================================================
